---- MODULE Spec2Model ----
(***************************************************************************)
(* Website-availability monitor: Store (websites, monitor checks, downtime *)
(* windows), MonitoringService.perform_check, CircuitBreaker and           *)
(* SchedulerService, modelled from backend/app.                            *)
(*                                                                         *)
(* Time is in seconds.  All coroutines run on one asyncio event loop, so   *)
(* code between two awaits that really suspend is one atomic action.  The  *)
(* only suspending await of perform_check is the HTTP request of           *)
(* check_website; _manage_downtime_window is a coroutine without an inner  *)
(* await and runs to completion when awaited.                              *)
(***************************************************************************)
EXTENDS Integers, Sequences, FiniteSets, TLC

VARIABLES
    now,            \* wall clock, datetime.now(timezone.utc)
    websites,       \* Store table websites: id -> [enabled, check_interval]
    checks,         \* Store table monitor_checks, per website id, in commit order
    windows,        \* Store table downtime_windows, per website id, in insert order
    calls,          \* perform_check calls made outside the scheduler, awaiting the probe
    failures,       \* CircuitBreaker.failures (dict)
    blocked_until,  \* CircuitBreaker.blocked_until (dict)
    streak,         \* history: direct record_failure calls since the last reset of the id
    returned,       \* value returned by the last direct is_blocked call
    started,        \* SchedulerService.scheduler is not None
    job_ids,        \* SchedulerService.job_ids (dict website id -> job id)
    sched_jobs,     \* jobs held by the AsyncIOScheduler: job id -> [interval, next_run_time]
    running,        \* website ids whose scheduled firing awaits the probe
    log,            \* per website id, the last message _check_website_wrapper logged
    raises,         \* history: consecutive firings of the id whose probe raised
    inflight,       \* history: probes of the id started by a firing and not yet returned
    debug_sessions, \* DebugService: the debug_sessions rows, the id is the position
    queues,         \* DebugService.active_sessions: the session ids that have a queue
    sessions,       \* DebugSessionService: the debug_sessions rows by id
    active_sessions, \* DebugSessionService._active_sessions: the ids it holds
    engine,         \* the ActiveDebugSession object made for a session id
    start_pc,       \* where the start_session call of a session id is suspended
    network_events, \* the network_events rows of a session id, in id order
    console_errors, \* the console_errors rows of a session id, in id order
    connections,    \* StreamingService._connections
    received,       \* the messages a subscriber was sent, in order
    slog,           \* history: how the calls on a session id went
    sockets,        \* the state of each WebSocket: "new", "open" or "closed"
    broadcasts,     \* the StreamingService.broadcast calls made, in call order
    monitor_checks, \* Store table monitor_checks as SLAAnalyticsService reads it
    downtime_windows, \* Store table downtime_windows as SLAAnalyticsService reads it
    sla,            \* the SLAAnalyticsService object: enable_cache and _cache
    answers,        \* history: what the calls of SLAAnalyticsService returned
    start_calls,    \* the start_session calls under way, where they overlap
    contexts,       \* every browsing context create_context has returned
    objects,        \* every ActiveDebugSession that was constructed
    registered      \* DebugSessionService._active_sessions, by object

vars == <<now, websites, checks, windows, calls, failures, blocked_until,
          streak, returned, started, job_ids, sched_jobs, running, log, raises,
          inflight, debug_sessions, queues, sessions, active_sessions, engine,
          start_pc, network_events, console_errors, connections, received, slog,
          sockets, broadcasts, monitor_checks, downtime_windows, sla, answers,
          start_calls, contexts, objects, registered>>

storeVars == <<websites, checks, windows>>
breakerVars == <<failures, blocked_until, streak>>
schedVars == <<started, job_ids, sched_jobs, running, log, raises, inflight>>
apiDebugVars == <<debug_sessions, queues>>
sessionVars == <<sessions, active_sessions, engine, start_pc, network_events,
                 console_errors, connections, received, slog>>
streamVars == <<sockets, broadcasts>>
slaVars == <<monitor_checks, downtime_windows, sla, answers>>
startVars == <<start_calls, contexts, objects, registered>>
debugVars == <<apiDebugVars, sessionVars, streamVars, slaVars, startVars>>

(***************************************************************************)
(* Bounds of the model                                                     *)
(***************************************************************************)
MaxChecks == 3
MaxCalls == 2
MaxStreak == 6
MaxFiringChecks == 2
MaxOutageChecks == 6
MaxJobsChecks == 1
MonitoringHorizon == 120
BreakerHorizon == 600
SchedulerHorizon == 600
OutageHorizon == 360
JobsHorizon == 120
MaxFiringsChecks == 1
FiringsHorizon == 360
MaxApiSessions == 3
DebugApiHorizon == 180
MaxSessions == 2
TargetsHorizon == 60
MaxLifecycleSessions == 1
LifecycleHorizon == 120
MaxCaptureSessions == 1
MaxEvents == 2
MaxOrderEvents == 3
MaxBroadcasts == 3
MaxMetricsChecks == 1
MaxMetricsWindows == 2
MaxMetricsQueries == 1
MaxCacheChecks == 1
MaxCacheWindows == 1
MaxCacheQueries == 2
CacheHorizon == 360
MaxHalfDays == 150
ClockHorizon == 5
MaxErrors == 1
MaxStartSessions == 2
MaxPercentileChecks == 2
MaxPercentileQueries == 2
PercentilesHorizon == 120
MaxCheckHalfDays == 4
MaxBucketedChecks == 2
MaxBucketedQueries == 2
MaxWindowQueries == 1

(***************************************************************************)
(* Program constants                                                       *)
(***************************************************************************)
failure_threshold == 5
timeout == 300
cache_ttl_seconds == 300
SecondsPerDay == 86400
\* settings.debug_session_max_duration, in seconds.
debug_session_max_duration == 3600
MinCheckInterval == 60
DefaultCheckInterval == 300
StatusOkLow == 200
StatusOkHigh == 400

WebsiteIds == {1, 2}
SessionIds == {1, 2}
TargetUrls == {"https://example.com"}
DurationLimits == {0, MinCheckInterval}
\* The limits asked for where the cap of create_session is looked at: none,
\* one below the maximum, one above it.
RequestedLimits == DurationLimits \cup {debug_session_max_duration + 1}
Subscribers == {"ws1", "ws2"}
\* The order in which a set of WebSockets is iterated.
SocketOrder == <<"ws1", "ws2">>
StopCallers == {"a", "b"}
Invokers == {"periodic", "start"} \cup StopCallers
MissingWebsiteId == 9999
CheckIntervals == {MinCheckInterval, DefaultCheckInterval}
ClockSteps == {MinCheckInterval, timeout}
\* What the clock advances between the two datetime.now() reads of one
\* perform_check call: nothing that shows, or one unit.
ReadDelays == {0, 1}

\* Optional values: None is the empty set, a present value v is {v}.
None == {}
Some(v) == {v}
Value(o) == CHOOSE v \in o : TRUE

\* Python dict operations on partial functions.
DictSet(d, k, v) == [x \in (DOMAIN d) \cup {k} |-> IF x = k THEN v ELSE d[x]]
DictDel(d, k) == [x \in (DOMAIN d) \ {k} |-> d[x]]
DictGet(d, k, default) == IF k \in DOMAIN d THEN d[k] ELSE default
EmptyDict == [x \in {} |-> 0]

Min(S) == CHOOSE x \in S : \A y \in S : x <= y

(***************************************************************************)
(* Store rows                                                              *)
(***************************************************************************)
Website(enabled, check_interval) ==
    [enabled |-> enabled, check_interval |-> check_interval]

MonitorCheck(timestamp, is_available) ==
    [timestamp |-> timestamp, is_available |-> is_available]

DowntimeWindow(start_time) ==
    [start_time |-> start_time, end_time |-> None]

(***************************************************************************)
(* Probe: what client.get(website.url) does.  Either a response with a    *)
(* status code arrives or the request raises.                             *)
(***************************************************************************)
StatusCodes == {199, 200, 399, 400, 500}
ProbeResults ==
    [kind : {"response"}, status_code : StatusCodes]
        \cup [kind : {"timeout", "connect", "unexpected"}, status_code : {0}]

\* MonitoringService.check_website: (is_available, status_code); every
\* exception of the request is caught and turned into is_available = False.
check_website(result) ==
    IF result.kind = "response"
    THEN [is_available |-> (StatusOkLow <= result.status_code
                            /\ result.status_code < StatusOkHigh),
          status_code |-> Some(result.status_code)]
    ELSE [is_available |-> FALSE, status_code |-> None]

\* Variant: opens a window for every unavailable check, without looking for
\* an open one.
manage_downtime_window_no_lookup(ws, is_available, at) ==
    LET open == {i \in 1..Len(ws) : ws[i].end_time = None} IN
    IF ~is_available
    THEN Append(ws, DowntimeWindow(at))
    ELSE IF open # {}
    THEN [ws EXCEPT ![Min(open)].end_time = Some(at)]
    ELSE ws

\* Variant: never sets end_time.
manage_downtime_window_never_closes(ws, is_available, at) ==
    LET open == {i \in 1..Len(ws) : ws[i].end_time = None} IN
    IF ~is_available /\ open = {}
    THEN Append(ws, DowntimeWindow(at))
    ELSE ws

\* Variant: a recovery closes the window one clock unit late.
manage_downtime_window_late_close(ws, is_available, at) ==
    LET open == {i \in 1..Len(ws) : ws[i].end_time = None} IN
    IF ~is_available /\ open = {}
    THEN Append(ws, DowntimeWindow(at))
    ELSE IF is_available /\ open # {}
    THEN [ws EXCEPT ![Min(open)].end_time = Some(at + 1)]
    ELSE ws

\* MonitoringService._manage_downtime_window on the rows of one website;
\* at is the value of datetime.now() it reads.
manage_downtime_window(ws, is_available, at) ==
    LET open == {i \in 1..Len(ws) : ws[i].end_time = None} IN
    IF ~is_available /\ open = {}
    THEN Append(ws, DowntimeWindow(at))
    ELSE IF is_available /\ open # {}
    THEN [ws EXCEPT ![Min(open)].end_time = Some(at)]
    ELSE ws

\* Variant: a failed commit leaves the check behind.
perform_check_no_rollback(id, result, db_ok, delay) ==
    LET r == check_website(result) IN
    /\ checks' = [checks EXCEPT
           ![id] = Append(@, MonitorCheck(now, r.is_available))]
    /\ windows' = IF db_ok
                  THEN [windows EXCEPT
                          ![id] = manage_downtime_window(@, r.is_available, now + delay)]
                  ELSE windows

\* Variant: the check is stamped with a time before the probe returned.
perform_check_backdated(id, result, db_ok, delay) ==
    LET r == check_website(result) IN
    IF db_ok
    THEN /\ checks' = [checks EXCEPT
                ![id] = Append(@, MonitorCheck(now - delay, r.is_available))]
         /\ windows' = [windows EXCEPT
                ![id] = manage_downtime_window(@, r.is_available, now + delay)]
    ELSE UNCHANGED <<checks, windows>>

\* MonitoringService.perform_check after the probe returned: add the check,
\* manage the window, commit.  db_ok = FALSE is a failing query or commit:
\* the session is rolled back and the exception re-raised.  The check takes
\* its timestamp from one read of datetime.now() (line 84) and
\* _manage_downtime_window reads the clock again (lines 133, 142); delay is
\* what the clock has advanced between the two reads.
perform_check(id, result, db_ok, delay) ==
    LET r == check_website(result) IN
    IF db_ok
    THEN /\ checks' = [checks EXCEPT
                ![id] = Append(@, MonitorCheck(now, r.is_available))]
         /\ windows' = [windows EXCEPT
                ![id] = manage_downtime_window(@, r.is_available, now + delay)]
    ELSE UNCHANGED <<checks, windows>>

(***************************************************************************)
(* Actions                                                                 *)
(***************************************************************************)
\* Time passes.  The scheduler's timer wakes it when a job is due, so the
\* clock never passes the next_run_time of a job.
Tick(horizon) ==
    /\ \E d \in ClockSteps :
          /\ now + d <= horizon
          /\ \A j \in DOMAIN sched_jobs : now + d <= sched_jobs[j].next_run_time
          /\ now' = now + d
    /\ UNCHANGED <<debugVars, storeVars, calls, breakerVars, returned, schedVars>>

\* Time passes while the event loop is kept from running the scheduler: the
\* clock passes the next_run_time of a job.
Stall(horizon) ==
    /\ \E d \in ClockSteps :
          /\ now + d <= horizon
          /\ \E j \in DOMAIN sched_jobs : now + d > sched_jobs[j].next_run_time
          /\ now' = now + d
    /\ UNCHANGED <<debugVars, storeVars, calls, breakerVars, returned, schedVars>>

\* website_crud.create_website
create_website ==
    /\ \E id \in WebsiteIds \ DOMAIN websites, e \in BOOLEAN, ci \in CheckIntervals :
          websites' = DictSet(websites, id, Website(e, ci))
    /\ UNCHANGED <<debugVars, now, checks, windows, calls, breakerVars, returned, schedVars>>

\* website_crud.update_website with the fields of the patch that are set
update_website ==
    /\ \E id \in DOMAIN websites,
          e \in {None} \cup {Some(b) : b \in BOOLEAN},
          ci \in {None} \cup {Some(c) : c \in CheckIntervals} :
          websites' = [websites EXCEPT
              ![id] = Website(IF e = None THEN @.enabled ELSE Value(e),
                              IF ci = None THEN @.check_interval ELSE Value(ci))]
    /\ UNCHANGED <<debugVars, now, checks, windows, calls, breakerVars, returned, schedVars>>

\* website_crud.delete_website; the relationships cascade the delete to the
\* checks and downtime windows of the website.
delete_website ==
    /\ \E id \in DOMAIN websites :
          /\ websites' = DictDel(websites, id)
          /\ checks' = [checks EXCEPT ![id] = <<>>]
          /\ windows' = [windows EXCEPT ![id] = <<>>]
    /\ UNCHANGED <<debugVars, now, calls, breakerVars, returned, schedVars>>

\* A caller outside the scheduler holds a Website row and awaits
\* perform_check: the coroutine suspends in the HTTP request.
PerformCheckCall ==
    /\ \E id \in DOMAIN websites :
          /\ calls[id] < MaxCalls
          /\ Len(checks[id]) + calls[id] + (IF id \in running THEN 1 ELSE 0) < MaxChecks
          /\ calls' = [calls EXCEPT ![id] = @ + 1]
    /\ UNCHANGED <<debugVars, now, storeVars, breakerVars, returned, schedVars>>

\* Variant: the clock is set back to the first read once the call is over.
PerformCheckReturn_clock_set_back(delays, horizon) ==
    /\ \E id \in WebsiteIds, result \in ProbeResults, db_ok \in BOOLEAN,
          delay \in delays :
          /\ calls[id] > 0
          /\ now + delay <= horizon
          /\ calls' = [calls EXCEPT ![id] = @ - 1]
          /\ perform_check(id, result, db_ok, delay)
    /\ UNCHANGED <<debugVars, now, websites, breakerVars, returned, schedVars>>

\* The request of such a call completes and perform_check runs to its end,
\* while the clock goes on by one of delays, up to the horizon.
PerformCheckReturn(delays, horizon) ==
    /\ \E id \in WebsiteIds, result \in ProbeResults, db_ok \in BOOLEAN,
          delay \in delays :
          /\ calls[id] > 0
          /\ now + delay <= horizon
          /\ calls' = [calls EXCEPT ![id] = @ - 1]
          /\ perform_check(id, result, db_ok, delay)
          /\ now' = now + delay
    /\ UNCHANGED <<debugVars, websites, breakerVars, returned, schedVars>>


(***************************************************************************)
(* CircuitBreaker; cb is [failures, blocked_until], at is the value of     *)
(* datetime.now(timezone.utc).timestamp() the method reads.                *)
(***************************************************************************)
Breaker == [failures |-> failures, blocked_until |-> blocked_until]

\* Variant: the target is blocked one failure before the threshold.
record_failure_blocks_early(cb, id, at) ==
    LET n == DictGet(cb.failures, id, 0) + 1 IN
    [failures |-> DictSet(cb.failures, id, n),
     blocked_until |-> IF n >= failure_threshold - 1
                       THEN DictSet(cb.blocked_until, id, at + timeout)
                       ELSE cb.blocked_until]

\* CircuitBreaker.record_failure
record_failure(cb, id, at) ==
    LET n == DictGet(cb.failures, id, 0) + 1 IN
    [failures |-> DictSet(cb.failures, id, n),
     blocked_until |-> IF n >= failure_threshold
                       THEN DictSet(cb.blocked_until, id, at + timeout)
                       ELSE cb.blocked_until]

\* Variant: the block is removed, the failure count stays.
record_success_keeps_count(cb, id) ==
    [failures |-> cb.failures,
     blocked_until |-> DictDel(cb.blocked_until, id)]

\* CircuitBreaker.record_success
record_success(cb, id) ==
    [failures |-> DictDel(cb.failures, id),
     blocked_until |-> DictDel(cb.blocked_until, id)]

\* Variant: the block ends only after blocked_until, not at it.
is_blocked_strict(cb, id, at) ==
    IF id \notin DOMAIN cb.blocked_until
    THEN [value |-> FALSE, cb |-> cb]
    ELSE IF at > cb.blocked_until[id]
    THEN [value |-> FALSE,
          cb |-> [failures |-> DictSet(cb.failures, id, 0),
                  blocked_until |-> DictDel(cb.blocked_until, id)]]
    ELSE [value |-> TRUE, cb |-> cb]

\* CircuitBreaker.is_blocked: the value returned and the breaker it leaves
is_blocked(cb, id, at) ==
    IF id \notin DOMAIN cb.blocked_until
    THEN [value |-> FALSE, cb |-> cb]
    ELSE IF at >= cb.blocked_until[id]
    THEN [value |-> FALSE,
          cb |-> [failures |-> DictSet(cb.failures, id, 0),
                  blocked_until |-> DictDel(cb.blocked_until, id)]]
    ELSE [value |-> TRUE, cb |-> cb]

\* The block of id has run out at time at: the next is_blocked call resets it.
Expired(id, at) == id \in DOMAIN blocked_until /\ at >= blocked_until[id]

SetBreaker(cb) ==
    /\ failures' = cb.failures
    /\ blocked_until' = cb.blocked_until

\* Direct calls of the three methods (as the unit tests make them).
CallRecordFailure(id) ==
    /\ streak[id] < MaxStreak
    /\ SetBreaker(record_failure(Breaker, id, now))
    /\ streak' = [streak EXCEPT ![id] = @ + 1]
    /\ UNCHANGED <<debugVars, now, storeVars, calls, returned, schedVars>>

CallRecordSuccess(id) ==
    /\ SetBreaker(record_success(Breaker, id))
    /\ streak' = [streak EXCEPT ![id] = 0]
    /\ UNCHANGED <<debugVars, now, storeVars, calls, returned, schedVars>>

CallIsBlocked(id) ==
    LET r == is_blocked(Breaker, id, now) IN
    /\ SetBreaker(r.cb)
    /\ returned' = Some([id |-> id, value |-> r.value])
    /\ streak' = [streak EXCEPT ![id] = IF Expired(id, now) THEN 0 ELSE @]
    /\ UNCHANGED <<debugVars, now, storeVars, calls, schedVars>>

(***************************************************************************)
(* SchedulerService; s is [scheduler, job_ids, sched_jobs]: whether        *)
(* self.scheduler is set, self.job_ids, and the jobs the AsyncIOScheduler  *)
(* holds.  raised is set when a method lets an exception escape.           *)
(***************************************************************************)
Scheduler ==
    [scheduler |-> started, job_ids |-> job_ids, sched_jobs |-> sched_jobs,
     raised |-> FALSE]

SetScheduler(s) ==
    /\ started' = s.scheduler
    /\ job_ids' = s.job_ids
    /\ sched_jobs' = s.sched_jobs

\* job_id = f"monitor_{website.id}"
job_id(website_id) == <<"monitor", website_id>>

\* scheduler.add_job(trigger=IntervalTrigger(seconds=check_interval), id=job_id,
\* replace_existing=True): the first run is one interval after the call.
add_job(jobs, jid, check_interval, at) ==
    DictSet(jobs, jid, [interval |-> check_interval,
                        next_run_time |-> at + check_interval])

\* SchedulerService.remove_job; scheduler.remove_job raises JobLookupError
\* for a job it does not hold, which is caught and logged.
remove_job(s, website_id) ==
    IF ~s.scheduler \/ website_id \notin DOMAIN s.job_ids
    THEN s
    ELSE LET jid == s.job_ids[website_id] IN
         IF jid \in DOMAIN s.sched_jobs
         THEN [s EXCEPT !.sched_jobs = DictDel(@, jid),
                        !.job_ids = DictDel(@, website_id)]
         ELSE s

\* Variant: a website that has a job keeps it as it is.
add_or_update_job_keeps_existing(s, website_id, website, at) ==
    IF ~s.scheduler \/ website_id \in DOMAIN s.job_ids
    THEN s
    ELSE [s EXCEPT
            !.sched_jobs = add_job(@, job_id(website_id), website.check_interval, at),
            !.job_ids = DictSet(@, website_id, job_id(website_id))]

\* SchedulerService.add_or_update_job; here the JobLookupError escapes.
add_or_update_job(s, website_id, website, at) ==
    IF ~s.scheduler
    THEN s
    ELSE IF website_id \in DOMAIN s.job_ids
            /\ job_id(website_id) \notin DOMAIN s.sched_jobs
    THEN [s EXCEPT !.raised = TRUE]
    ELSE [s EXCEPT
            !.sched_jobs = add_job(DictDel(@, job_id(website_id)),
                                   job_id(website_id), website.check_interval, at),
            !.job_ids = DictSet(@, website_id, job_id(website_id))]

\* website_crud.get_active_websites
get_active_websites(ws) == {id \in DOMAIN ws : ws[id].enabled}

\* The two loops of sync_jobs.
RECURSIVE RemoveInactive(_, _, _)
RemoveInactive(s, ids, active) ==
    IF ids = {}
    THEN s
    ELSE LET id == CHOOSE x \in ids : TRUE IN
         RemoveInactive(IF id \notin active THEN remove_job(s, id) ELSE s,
                        ids \ {id}, active)

RECURSIVE AddActive(_, _, _, _)
AddActive(s, ids, ws, at) ==
    IF ids = {} \/ s.raised
    THEN s
    ELSE LET id == CHOOSE x \in ids : TRUE IN
         AddActive(add_or_update_job(s, id, ws[id], at), ids \ {id}, ws, at)

\* SchedulerService.sync_jobs
sync_jobs(s, ws, at) ==
    IF ~s.scheduler
    THEN s
    ELSE LET active == get_active_websites(ws) IN
         AddActive(RemoveInactive(s, DOMAIN s.job_ids, active), active, ws, at)

\* Variant: the answer of is_blocked is not acted on.
check_website_wrapper_unguarded(cb, s, ws, id, at, read_ok) ==
    LET b == is_blocked(cb, id, at) IN
    IF ~read_ok
    THEN [cb |-> record_failure(b.cb, id, at), s |-> s, log |-> "error",
          probe |-> FALSE]
    ELSE IF id \notin DOMAIN ws
    THEN [cb |-> b.cb, s |-> remove_job(s, id), log |-> "not found",
          probe |-> FALSE]
    ELSE IF ~ws[id].enabled
    THEN [cb |-> b.cb, s |-> remove_job(s, id), log |-> "disabled",
          probe |-> FALSE]
    ELSE [cb |-> b.cb, s |-> s, log |-> "executing", probe |-> TRUE]

\* Variant: the job of a disabled website is left in place.
check_website_wrapper_keeps_job(cb, s, ws, id, at, read_ok) ==
    LET b == is_blocked(cb, id, at) IN
    IF b.value
    THEN [cb |-> b.cb, s |-> s, log |-> "skipping", probe |-> FALSE]
    ELSE IF ~read_ok
    THEN [cb |-> record_failure(b.cb, id, at), s |-> s, log |-> "error",
          probe |-> FALSE]
    ELSE IF id \notin DOMAIN ws
    THEN [cb |-> b.cb, s |-> remove_job(s, id), log |-> "not found",
          probe |-> FALSE]
    ELSE IF ~ws[id].enabled
    THEN [cb |-> b.cb, s |-> s, log |-> "disabled", probe |-> FALSE]
    ELSE [cb |-> b.cb, s |-> s, log |-> "executing", probe |-> TRUE]

\* SchedulerService._check_website_wrapper up to its await: the breaker and
\* the scheduler it leaves, the message it logged, and whether it goes on to
\* the probe.  read_ok = FALSE is a Store read that raises.
check_website_wrapper(cb, s, ws, id, at, read_ok) ==
    LET b == is_blocked(cb, id, at) IN
    IF b.value
    THEN [cb |-> b.cb, s |-> s, log |-> "skipping", probe |-> FALSE]
    ELSE IF ~read_ok
    THEN [cb |-> record_failure(b.cb, id, at), s |-> s, log |-> "error",
          probe |-> FALSE]
    ELSE IF id \notin DOMAIN ws
    THEN [cb |-> b.cb, s |-> remove_job(s, id), log |-> "not found",
          probe |-> FALSE]
    ELSE IF ~ws[id].enabled
    THEN [cb |-> b.cb, s |-> remove_job(s, id), log |-> "disabled",
          probe |-> FALSE]
    ELSE [cb |-> b.cb, s |-> s, log |-> "executing", probe |-> TRUE]

\* The end of the except clause of _check_website_wrapper: db.rollback()
\* returns and the wrapper ends with the error logged, or it raises and the
\* exception leaves the wrapper through the finally clause.
wrapper_rollback(logged, rollback_ok) ==
    IF rollback_ok THEN logged ELSE "raised"

\* The breaker after perform_check returned or raised in the wrapper.
record_outcome(cb, id, at, db_ok) ==
    IF db_ok THEN record_success(cb, id) ELSE record_failure(cb, id, at)

\* The run time the trigger yields after the run that is due at at: missed
\* run times are coalesced into the last one.
NextRunTime(job, at) ==
    job.next_run_time
        + (((at - job.next_run_time) \div job.interval) + 1) * job.interval

\* SchedulerService.start
start ==
    /\ ~started
    /\ \E scheduler_enabled \in BOOLEAN :
          IF scheduler_enabled
          THEN SetScheduler(sync_jobs([Scheduler EXCEPT !.scheduler = TRUE],
                                      websites, now))
          ELSE UNCHANGED <<started, job_ids, sched_jobs>>
    /\ UNCHANGED <<debugVars, now, storeVars, calls, breakerVars, returned, running, log, raises,
                   inflight>>

\* SchedulerService.sync_jobs called on its own
SyncJobs ==
    /\ started
    /\ SetScheduler(sync_jobs(Scheduler, websites, now))
    /\ UNCHANGED <<debugVars, now, storeVars, calls, breakerVars, returned, running, log, raises,
                   inflight>>

\* The last run time of the job that is due at at.
LastRunTime(job, at) == NextRunTime(job, at) - job.interval

\* The AsyncIOScheduler finds the run of a due job late by more than the
\* misfire grace time: the run is dropped and next_run_time moved on.  The
\* grace time is left at the library's default by SchedulerService.start and
\* set to 300 by TaskScheduler.initialize, so a late run may go either way.
MissJob(id) ==
    /\ started
    /\ job_id(id) \in DOMAIN sched_jobs
    /\ now > LastRunTime(sched_jobs[job_id(id)], now)
    /\ LastRunTime(sched_jobs[job_id(id)], now) >= sched_jobs[job_id(id)].next_run_time
    /\ sched_jobs' = [sched_jobs EXCEPT ![job_id(id)].next_run_time =
                         NextRunTime(sched_jobs[job_id(id)], now)]
    /\ UNCHANGED <<debugVars, now, storeVars, calls, breakerVars, returned, started, job_ids,
                   running, log, raises, inflight>>

\* Variant: a due job runs although an instance of it is still running.
FireJob_overlapping(id, read_ok, max_checks) ==
    /\ started
    /\ job_id(id) \in DOMAIN sched_jobs
    /\ now >= sched_jobs[job_id(id)].next_run_time
    /\ Len(checks[id]) < max_checks
    /\ LET job == sched_jobs[job_id(id)]
           s0 == [Scheduler EXCEPT
                    !.sched_jobs[job_id(id)].next_run_time = NextRunTime(job, now)]
           w == check_website_wrapper(Breaker, s0, websites, id, now, read_ok)
       IN /\ SetScheduler(w.s)
          /\ SetBreaker(w.cb)
          /\ log' = [log EXCEPT ![id] = w.log]
          /\ running' = IF w.probe THEN running \cup {id} ELSE running
          /\ inflight' = [inflight EXCEPT ![id] = IF w.probe THEN @ + 1 ELSE @]
    /\ UNCHANGED <<debugVars, now, storeVars, calls, streak, returned, raises>>

\* The AsyncIOScheduler runs a due job: it moves next_run_time on and, unless
\* an instance of the job is still running (max_instances = 1), calls
\* _check_website_wrapper, which runs up to its await.  max_checks bounds the
\* checks a website collects in the model.
FireJob(id, read_ok, max_checks) ==
    /\ started
    /\ job_id(id) \in DOMAIN sched_jobs
    /\ now >= sched_jobs[job_id(id)].next_run_time
    /\ Len(checks[id]) < max_checks
    /\ LET job == sched_jobs[job_id(id)]
           s0 == [Scheduler EXCEPT
                    !.sched_jobs[job_id(id)].next_run_time = NextRunTime(job, now)]
       IN IF id \in running
          THEN /\ SetScheduler(s0)
               /\ UNCHANGED <<failures, blocked_until, running, log, inflight>>
          ELSE LET w == check_website_wrapper(Breaker, s0, websites, id, now, read_ok)
               IN /\ SetScheduler(w.s)
                  /\ SetBreaker(w.cb)
                  /\ \E rollback_ok \in BOOLEAN :
                        log' = [log EXCEPT ![id] =
                                   IF w.log = "error"
                                   THEN wrapper_rollback(w.log, rollback_ok)
                                   ELSE w.log]
                  /\ running' = IF w.probe THEN running \cup {id} ELSE running
                  /\ inflight' = [inflight EXCEPT ![id] = IF w.probe THEN @ + 1 ELSE @]
    /\ UNCHANGED <<debugVars, now, storeVars, calls, streak, returned, raises>>

\* The probe of a firing completes: perform_check runs to its end and the
\* wrapper records the outcome in the breaker.  In a firing the two clock
\* reads of perform_check fall into the same second of the scheduler's
\* clock; SpecMonitoring has the calls whose reads differ.
WrapperReturn(id, result, db_ok) ==
    /\ id \in running
    /\ perform_check(id, result, db_ok, 0)
    /\ SetBreaker(record_outcome(Breaker, id, now, db_ok))
    /\ running' = running \ {id}
    /\ \E rollback_ok \in BOOLEAN :
          log' = [log EXCEPT ![id] =
                     IF db_ok THEN "persisted"
                     ELSE wrapper_rollback("error persisting", rollback_ok)]
    /\ raises' = [raises EXCEPT ![id] = IF result.kind = "response" THEN 0 ELSE @ + 1]
    /\ inflight' = [inflight EXCEPT ![id] = @ - 1]
    /\ UNCHANGED <<debugVars, now, websites, calls, streak, returned, started, job_ids, sched_jobs>>

(***************************************************************************)
(* DebugService: the debug sessions the API serves, attached to a website  *)
(* by id.  Its methods have no await: each call is one step.               *)
(***************************************************************************)
\* A debug_sessions row as start_debug_session writes it.
ApiDebugSession(website_id) ==
    [website_id |-> website_id, status |-> "active", end_time |-> None]

ActiveApiSessions(website_id) ==
    {i \in 1..Len(debug_sessions) :
        /\ debug_sessions[i].website_id = website_id
        /\ debug_sessions[i].status = "active"}

\* DebugService.start_debug_session; a missing website and an active
\* session of the website raise ValueError.
start_debug_session(website_id) ==
    /\ Len(debug_sessions) < MaxApiSessions
    /\ IF website_id \notin DOMAIN websites \/ ActiveApiSessions(website_id) # {}
       THEN UNCHANGED apiDebugVars
       ELSE /\ debug_sessions' = Append(debug_sessions, ApiDebugSession(website_id))
            /\ queues' = queues \cup {Len(debug_sessions) + 1}
    /\ UNCHANGED <<now, storeVars, calls, breakerVars, returned, schedVars, startVars,
                   sessionVars, streamVars, slaVars>>

\* DebugService.stop_debug_session; None is returned for an id without row.
stop_debug_session(session_id) ==
    /\ IF session_id \notin 1..Len(debug_sessions)
       THEN UNCHANGED apiDebugVars
       ELSE /\ debug_sessions' = [debug_sessions EXCEPT
                                     ![session_id].end_time = Some(now),
                                     ![session_id].status = "completed"]
            /\ queues' = queues \ {session_id}
    /\ UNCHANGED <<now, storeVars, calls, breakerVars, returned, schedVars, startVars,
                   sessionVars, streamVars, slaVars>>

(***************************************************************************)
(* DebugSessionService and ActiveDebugSession: the debug sessions attached *)
(* to a target URL.  A coroutine runs from one await that suspends it to   *)
(* the next in one step.                                                   *)
(***************************************************************************)
\* A debug_sessions row as create_session writes it; duration_limit 0 is
\* no limit (None and 0 are both false in the tests of the code).
DebugSession(target_url, duration_limit) ==
    [target_url |-> target_url, status |-> "pending", started_at |-> None,
     stopped_at |-> None, duration_limit |-> duration_limit,
     error_message |-> None]

NoBroadcast == [busy |-> FALSE, rest |-> <<>>]

\* ActiveDebugSession.__init__ : no tasks, empty buffers.  handlers is set
\* once start_monitoring has attached them; bcast is, per invocation of
\* _flush_events, the messages it still has to broadcast while it is
\* suspended in a send; stop_pc is where each call of stop() is suspended;
\* handling counts the _handle_response calls suspended before their append;
\* appended numbers the events in the order they enter the buffer;
\* event_calls and error_calls count the handler calls that capture.
ActiveDebugSession ==
    [stop_event |-> FALSE, flush_task |-> "none", timeout_task |-> "none",
     pending_events |-> <<>>, pending_errors |-> <<>>,
     context |-> "open", handlers |-> FALSE,
     bcast |-> [i \in Invokers |-> NoBroadcast],
     stop_pc |-> [c \in Invokers \ {"periodic"} |-> "idle"],
     handling |-> 0, appended |-> 0, event_calls |-> 0, error_calls |-> 0,
     calls_at_stop |-> None]

NoEngine == [ActiveDebugSession EXCEPT !.context = "none"]

\* The messages the code broadcasts.
StatusMessage(status) == [type |-> "status", status |-> status, id |-> 0]
EventMessage(db_event) == [type |-> "network_event", status |-> "", id |-> db_event.id]
ErrorMessage(db_error) == [type |-> "console_error", status |-> "", id |-> db_error.id]

\* What a step of a session works on: the object, the rows of the session
\* and what the subscribers have got.
World(sid) ==
    [e |-> engine[sid], ne |-> network_events[sid], ce |-> console_errors[sid],
     rx |-> received]

SetWorld(sid, w) ==
    /\ engine' = [engine EXCEPT ![sid] = w.e]
    /\ network_events' = [network_events EXCEPT ![sid] = w.ne]
    /\ console_errors' = [console_errors EXCEPT ![sid] = w.ce]
    /\ received' = w.rx

\* StreamingService.broadcast as the debug sessions use it, up to the await
\* of the send: the message goes to the connection of the session (the
\* sessions of these specifications have at most one).
broadcast(rx, sid, message) ==
    [sub \in Subscribers |->
        IF sub \in DictGet(connections, sid, {})
        THEN Append(rx[sub], message) ELSE rx[sub]]

\* The rows _flush_events adds for a batch; the id of a row is its position
\* among the rows of the session.
DbRows(batch, rows) ==
    [i \in 1..Len(batch) |-> [id |-> Len(rows) + i, n |-> batch[i].n,
                              kind |-> batch[i].kind]]

\* ActiveDebugSession._flush_events called by invoker, up to its first
\* suspension: the buffers are copied and cleared, the batch is committed and
\* the first message broadcast; with no connection no send suspends it.
\* ok = FALSE is a commit that raises: the session is rolled back.
flush_events(w, sid, invoker, ok) ==
    LET e == w.e
        e1 == [e EXCEPT !.pending_events = <<>>, !.pending_errors = <<>>]
        db_events == DbRows(e.pending_events, w.ne)
        db_errors == DbRows(e.pending_errors, w.ce)
        msgs == [i \in 1..Len(db_events) |-> EventMessage(db_events[i])]
                  \o [i \in 1..Len(db_errors) |-> ErrorMessage(db_errors[i])]
    IN IF e.pending_events = <<>> /\ e.pending_errors = <<>>
       THEN w
       ELSE IF ~ok
       THEN [w EXCEPT !.e = e1]
       ELSE IF DictGet(connections, sid, {}) = {}
       THEN [w EXCEPT !.e = e1, !.ne = @ \o db_events, !.ce = @ \o db_errors]
       ELSE [w EXCEPT !.e = [e1 EXCEPT !.bcast[invoker] =
                                [busy |-> TRUE, rest |-> Tail(msgs)]],
                      !.ne = @ \o db_events, !.ce = @ \o db_errors,
                      !.rx = broadcast(@, sid, Head(msgs))]

\* The loop test of _periodic_flush after a flush.
periodic_loop(e) ==
    [e EXCEPT !.flush_task = IF e.stop_event THEN "done" ELSE "sleep"]

\* ActiveDebugSession.stop from the final flush on, up to its next
\* suspension: a send of the flush or the close of the context.
stop_final_flush(w, sid, c, ok) ==
    LET w1 == flush_events(w, sid, c, ok) IN
    [w1 EXCEPT !.e.stop_pc[c] = IF w1.e.bcast[c].busy THEN "flush" ELSE "close"]

\* A task is "none" before it is created, "sleep" or "broadcast" where it is
\* suspended, "cancelled" from cancel() until it has ended, then "done".
Live(task) == task \in {"sleep", "broadcast", "cancelled"}

\* ActiveDebugSession.stop from the cancel of the flush task on, up to the
\* next suspension: the flush task is cancelled and awaited, then the
\* timeout task, then the final flush is made.  A task that is cancelled
\* does nothing more: what a flush had left to broadcast is dropped.
\* Awaiting a task that has not ended suspends the caller.
stop_tasks(w, sid, c, ok) ==
    LET e == w.e IN
    IF Live(e.flush_task)
    THEN [w EXCEPT !.e = [e EXCEPT !.flush_task = "cancelled",
                                   !.bcast["periodic"] = NoBroadcast,
                                   !.stop_pc[c] = "tasks"]]
    ELSE IF Live(e.timeout_task)
    THEN [w EXCEPT !.e = [e EXCEPT !.timeout_task = "cancelled",
                                   !.stop_pc[c] = "tasks"]]
    ELSE stop_final_flush(w, sid, c, ok)

\* ActiveDebugSession.stop up to its first suspension.
\* calls_at_stop keeps how many handler calls had begun at the first call.
stop(w, sid, c, ok) ==
    stop_tasks([w EXCEPT !.e.stop_event = TRUE,
                         !.e.calls_at_stop =
                            IF @ = None
                            THEN Some(<<w.e.event_calls, w.e.error_calls>>)
                            ELSE @],
               sid, c, ok)

\* A send of invoker's flush returns: the next message is sent, or the flush
\* is over and its caller goes on.
send_returns(w, sid, invoker) ==
    LET b == w.e.bcast[invoker] IN
    IF b.rest # <<>>
    THEN [w EXCEPT !.e.bcast[invoker].rest = Tail(b.rest),
                   !.rx = broadcast(@, sid, Head(b.rest))]
    ELSE IF invoker = "periodic"
    THEN [w EXCEPT !.e = periodic_loop([@ EXCEPT !.bcast[invoker] = NoBroadcast])]
    ELSE [w EXCEPT !.e = [@ EXCEPT !.bcast[invoker] = NoBroadcast,
                                   !.stop_pc[invoker] = "close"]]

restVars == <<now, storeVars, calls, breakerVars, returned, schedVars, apiDebugVars,
              streamVars, slaVars>>

otherVars == <<restVars, startVars>>

\* create_session storing the duration limit as it was requested.
create_session_uncapped(target_url, duration_limit, max_sessions) ==
    LET id == Cardinality(DOMAIN sessions) + 1 IN
    /\ id <= max_sessions
    /\ sessions' = DictSet(sessions, id, DebugSession(target_url, duration_limit))
    /\ slog' = [slog EXCEPT ![id] = "created"]
    /\ UNCHANGED <<otherVars, active_sessions, engine, start_pc, network_events,
                   console_errors, connections, received>>

\* DebugSessionService.create_session; the ids are given out in order.  A
\* duration limit above settings.debug_session_max_duration is replaced by
\* it.
create_session(target_url, duration_limit, max_sessions) ==
    LET id == Cardinality(DOMAIN sessions) + 1
        limit == IF duration_limit # 0 /\ duration_limit > debug_session_max_duration
                 THEN debug_session_max_duration
                 ELSE duration_limit
    IN
    /\ id <= max_sessions
    /\ sessions' = DictSet(sessions, id, DebugSession(target_url, limit))
    /\ slog' = [slog EXCEPT ![id] = "created"]
    /\ UNCHANGED <<otherVars, active_sessions, engine, start_pc, network_events,
                   console_errors, connections, received>>

\* The except clause of start_session: the row is marked failed and
\* committed, then the object, if it is registered, is stopped and removed.
\* commit_ok = FALSE is a commit that raises: the exception leaves the clause
\* at once.
StartFails(sid, w, active, commit_ok) ==
    IF ~commit_ok
    THEN /\ SetWorld(sid, w)
         /\ start_pc' = [start_pc EXCEPT ![sid] = "idle"]
         /\ slog' = [slog EXCEPT ![sid] = "start raised in except"]
         /\ UNCHANGED sessions
    ELSE /\ sessions' = [sessions EXCEPT ![sid].status = "failed",
                                         ![sid].error_message = Some("error")]
         /\ slog' = [slog EXCEPT ![sid] = "start failed"]
         /\ IF sid \in active
            THEN /\ SetWorld(sid, stop(w, sid, "start", TRUE))
                 /\ start_pc' = [start_pc EXCEPT ![sid] = "cleanup"]
            ELSE /\ SetWorld(sid, w)
                 /\ start_pc' = [start_pc EXCEPT ![sid] = "idle"]

\* Variant: the status of the session is not looked at.
StartCall_unchecked(sid) ==
    /\ start_pc[sid] = "idle"
    /\ IF sid \notin DOMAIN sessions
       THEN /\ slog' = [slog EXCEPT ![sid] = "start refused"]
            /\ UNCHANGED start_pc
       ELSE /\ start_pc' = [start_pc EXCEPT ![sid] = "context"]
            /\ slog' = [slog EXCEPT ![sid] = "starting"]
    /\ UNCHANGED <<otherVars, sessions, active_sessions, engine, network_events,
                   console_errors, connections, received>>

\* start_session up to the await of create_context; a missing session and
\* a session that is not pending raise ValueError.
StartCall(sid) ==
    /\ start_pc[sid] = "idle"
    /\ IF sid \notin DOMAIN sessions \/ sessions[sid].status # "pending"
       THEN /\ slog' = [slog EXCEPT ![sid] = "start refused"]
            /\ UNCHANGED start_pc
       ELSE /\ start_pc' = [start_pc EXCEPT ![sid] = "context"]
            /\ slog' = [slog EXCEPT ![sid] = "starting"]
    /\ UNCHANGED <<otherVars, sessions, active_sessions, engine, network_events,
                   console_errors, connections, received>>

\* start_session from the return of create_context and new_page to the await
\* of page.goto.  outcome names the step that raises, if one does: "context"
\* is create_context, "page" is new_page, with the context made and held by
\* no object yet (engine[sid].context is that context unless an object of an
\* earlier call is still registered, which the except clause then stops).
StartContext(sid, outcome, commit_ok) ==
    /\ start_pc[sid] = "context"
    /\ LET w0 == [World(sid) EXCEPT !.e = ActiveDebugSession] IN
       CASE outcome = "context" ->
               /\ StartFails(sid, World(sid), active_sessions, commit_ok)
               /\ UNCHANGED active_sessions
         [] outcome = "page" ->
               /\ StartFails(sid,
                             IF sid \in active_sessions THEN World(sid)
                             ELSE [World(sid) EXCEPT !.e.context = "open"],
                             active_sessions, commit_ok)
               /\ UNCHANGED active_sessions
         [] outcome = "commit" ->
               /\ StartFails(sid, w0, active_sessions \cup {sid}, commit_ok)
               /\ active_sessions' = active_sessions \cup {sid}
         [] outcome = "attach" ->
               /\ active_sessions' = active_sessions \cup {sid}
               /\ IF commit_ok
                  THEN /\ sessions' = [sessions EXCEPT
                              ![sid].status = "failed",
                              ![sid].started_at = Some(now),
                              ![sid].error_message = Some("error")]
                       /\ slog' = [slog EXCEPT ![sid] = "start failed"]
                       /\ SetWorld(sid, stop(w0, sid, "start", TRUE))
                       /\ start_pc' = [start_pc EXCEPT ![sid] = "cleanup"]
                  ELSE /\ sessions' = [sessions EXCEPT
                              ![sid].status = "active",
                              ![sid].started_at = Some(now)]
                       /\ slog' = [slog EXCEPT ![sid] = "start raised in except"]
                       /\ SetWorld(sid, w0)
                       /\ start_pc' = [start_pc EXCEPT ![sid] = "idle"]
         [] outcome = "ok" ->
               /\ active_sessions' = active_sessions \cup {sid}
               /\ sessions' = [sessions EXCEPT ![sid].status = "active",
                                               ![sid].started_at = Some(now)]
               /\ SetWorld(sid, [w0 EXCEPT !.e =
                     [@ EXCEPT !.handlers = TRUE,
                               !.flush_task = "sleep",
                               !.timeout_task =
                                  IF sessions[sid].duration_limit # 0
                                  THEN "sleep" ELSE "none"]])
               /\ start_pc' = [start_pc EXCEPT ![sid] = "goto"]
               /\ UNCHANGED slog
    /\ UNCHANGED <<otherVars, connections>>

\* start_session from the return of page.goto: the status message is
\* broadcast, or the navigation raised.
StartGoto(sid, nav_ok, commit_ok) ==
    /\ start_pc[sid] = "goto"
    /\ IF nav_ok
       THEN /\ SetWorld(sid, [World(sid) EXCEPT
                                !.rx = broadcast(@, sid, StatusMessage("active"))])
            /\ start_pc' = [start_pc EXCEPT ![sid] = "idle"]
            /\ slog' = [slog EXCEPT ![sid] = "started"]
            /\ UNCHANGED sessions
       ELSE StartFails(sid, World(sid), active_sessions, commit_ok)
    /\ UNCHANGED <<otherVars, active_sessions, connections>>

\* stop_session called by c, up to the first suspension of stop(); a
\* missing session and a session that is not registered raise ValueError.
stop_session(sid, c) ==
    /\ sid \in DOMAIN engine
    /\ engine[sid].stop_pc[c] = "idle"
    /\ IF sid \notin DOMAIN sessions \/ sid \notin active_sessions
       THEN /\ slog' = [slog EXCEPT ![sid] = "stop refused"]
            /\ UNCHANGED <<engine, network_events, console_errors, received>>
       ELSE /\ SetWorld(sid, stop(World(sid), sid, c, TRUE))
            /\ slog' = [slog EXCEPT ![sid] = "stopping"]
    /\ UNCHANGED <<otherVars, sessions, active_sessions, start_pc, connections>>

\* The cancelled tasks of the object end.
TasksEnd(sid) ==
    /\ "cancelled" \in {engine[sid].flush_task, engine[sid].timeout_task}
    /\ engine' = [engine EXCEPT
          ![sid].flush_task = IF @ = "cancelled" THEN "done" ELSE @,
          ![sid].timeout_task = IF @ = "cancelled" THEN "done" ELSE @]
    /\ UNCHANGED <<otherVars, sessions, active_sessions, start_pc, network_events,
                   console_errors, connections, received, slog>>

\* stop() called by c goes on after the task it awaited: the timeout task is
\* cancelled and awaited, or the final flush is made.
StopTasksDone(sid, c, ok) ==
    /\ engine[sid].stop_pc[c] = "tasks"
    /\ "cancelled" \notin {engine[sid].flush_task, engine[sid].timeout_task}
    /\ SetWorld(sid, stop_tasks(World(sid), sid, c, ok))
    /\ UNCHANGED <<otherVars, sessions, active_sessions, start_pc, connections, slog>>

\* The send a flush is suspended in returns.
SendReturns(sid, invoker) ==
    /\ engine[sid].bcast[invoker].busy
    /\ SetWorld(sid, send_returns(World(sid), sid, invoker))
    /\ UNCHANGED <<otherVars, sessions, active_sessions, start_pc, connections, slog>>

\* context.close() returns to stop() and stop() to its caller.  stop_session
\* removes the object from the map, which raises KeyError when it is gone,
\* writes the row and broadcasts the status; commit_ok = FALSE is a commit
\* that raises.  The except clause of start_session removes the object.
StopClose(sid, c, commit_ok) ==
    /\ engine[sid].stop_pc[c] = "close"
    /\ LET w == [World(sid) EXCEPT !.e.context = "closed",
                                   !.e.stop_pc[c] = "idle"]
       IN IF c = "start"
          THEN /\ SetWorld(sid, w)
               /\ active_sessions' = active_sessions \ {sid}
               /\ start_pc' = [start_pc EXCEPT ![sid] = "idle"]
               /\ UNCHANGED <<sessions, slog>>
          ELSE IF sid \notin active_sessions
          THEN /\ SetWorld(sid, w)
               /\ slog' = [slog EXCEPT ![sid] = "stop raised"]
               /\ UNCHANGED <<sessions, active_sessions, start_pc>>
          ELSE IF ~commit_ok
          THEN /\ SetWorld(sid, w)
               /\ active_sessions' = active_sessions \ {sid}
               /\ slog' = [slog EXCEPT ![sid] = "stop raised"]
               /\ UNCHANGED <<sessions, start_pc>>
          ELSE /\ SetWorld(sid, [w EXCEPT
                      !.rx = broadcast(@, sid, StatusMessage("stopped"))])
               /\ active_sessions' = active_sessions \ {sid}
               /\ sessions' = [sessions EXCEPT ![sid].status = "stopped",
                                               ![sid].stopped_at = Some(now)]
               /\ slog' = [slog EXCEPT ![sid] = "stopped"]
               /\ UNCHANGED start_pc
    /\ UNCHANGED <<otherVars, connections>>

\* _periodic_flush wakes from its sleep and flushes.
PeriodicFlush(sid, ok) ==
    /\ engine[sid].flush_task = "sleep"
    /\ LET w == flush_events(World(sid), sid, "periodic", ok) IN
       SetWorld(sid, [w EXCEPT !.e = IF w.e.bcast["periodic"].busy
                                     THEN [@ EXCEPT !.flush_task = "broadcast"]
                                     ELSE periodic_loop(@)])
    /\ UNCHANGED <<otherVars, sessions, active_sessions, start_pc, connections, slog>>

\* _timeout_handler wakes when the duration limit has passed.
TimeoutFires(sid) ==
    /\ engine[sid].timeout_task = "sleep"
    /\ now >= Value(sessions[sid].started_at) + sessions[sid].duration_limit
    /\ SetWorld(sid, [World(sid) EXCEPT
          !.rx = broadcast(@, sid, StatusMessage("timeout")),
          !.e = [@ EXCEPT !.stop_event = TRUE, !.timeout_task = "done"]])
    /\ slog' = [slog EXCEPT ![sid] = "deadline"]
    /\ UNCHANGED <<otherVars, sessions, active_sessions, start_pc, connections>>

\* The page calls a handler while its context is open.
Capturing(sid) == engine[sid].handlers /\ engine[sid].context = "open"

NewEvent(e, kind) == [kind |-> kind, n |-> e.appended + 1]

\* _handle_request: no await, the event is appended at once.
HandleRequest(sid, max_events) ==
    /\ Capturing(sid)
    /\ engine[sid].event_calls < max_events
    /\ engine' = [engine EXCEPT ![sid] =
          [@ EXCEPT !.pending_events = Append(@, NewEvent(engine[sid], "request")),
                    !.appended = @ + 1, !.event_calls = @ + 1]]
    /\ UNCHANGED <<otherVars, sessions, active_sessions, start_pc, network_events,
                   console_errors, connections, received, slog>>

\* _handle_response up to its await of the headers or the body.
HandleResponse(sid, max_events) ==
    /\ Capturing(sid)
    /\ engine[sid].event_calls < max_events
    /\ engine' = [engine EXCEPT ![sid] =
          [@ EXCEPT !.handling = @ + 1, !.event_calls = @ + 1]]
    /\ UNCHANGED <<otherVars, sessions, active_sessions, start_pc, network_events,
                   console_errors, connections, received, slog>>

\* _handle_response after its awaits: the event is appended.
HandleResponseAppend(sid) ==
    /\ engine[sid].handling > 0
    /\ engine' = [engine EXCEPT ![sid] =
          [@ EXCEPT !.pending_events = Append(@, NewEvent(engine[sid], "response")),
                    !.appended = @ + 1, !.handling = @ - 1]]
    /\ UNCHANGED <<otherVars, sessions, active_sessions, start_pc, network_events,
                   console_errors, connections, received, slog>>

\* _handle_console: only errors and warnings are kept.
HandleConsole(sid, level, max_errors) ==
    /\ Capturing(sid)
    /\ engine[sid].error_calls < max_errors
    /\ engine' = [engine EXCEPT ![sid] =
          IF level \in {"error", "warning"}
          THEN [@ EXCEPT !.pending_errors =
                            Append(@, [kind |-> level, n |-> engine[sid].error_calls + 1]),
                         !.error_calls = @ + 1]
          ELSE @]
    /\ UNCHANGED <<otherVars, sessions, active_sessions, start_pc, network_events,
                   console_errors, connections, received, slog>>

(***************************************************************************)
(* start_session and stop_session with the calls for one session taken     *)
(* apart: each start_session call has its own position, each context and   *)
(* each ActiveDebugSession that is made is kept, and _active_sessions maps *)
(* a session id to the object that was stored last.  No step raises, and   *)
(* the pages deliver no events.                                            *)
(***************************************************************************)
NoStartCall == [session_id |-> 0, pc |-> "idle", context |-> 0]

\* start_session called by c up to the await of create_context; a missing
\* session and a session whose row is not pending raise ValueError.
start_session(c, sid) ==
    /\ start_calls[c].pc = "idle"
    /\ IF sid \notin DOMAIN sessions \/ sessions[sid].status # "pending"
       THEN /\ slog' = [slog EXCEPT ![sid] = "start refused"]
            /\ UNCHANGED start_calls
       ELSE /\ start_calls' = [start_calls EXCEPT ![c] =
                                 [session_id |-> sid, pc |-> "context", context |-> 0]]
            /\ slog' = [slog EXCEPT ![sid] = "starting"]
    /\ UNCHANGED <<restVars, sessions, active_sessions, engine, start_pc,
                   network_events, console_errors, connections, received,
                   contexts, objects, registered>>

\* create_context returns a new context to the call of c, which awaits
\* new_page.
StartSessionContext(c) ==
    /\ start_calls[c].pc = "context"
    /\ contexts' = Append(contexts, [session_id |-> start_calls[c].session_id,
                                     state |-> "open"])
    /\ start_calls' = [start_calls EXCEPT ![c].pc = "page",
                                          ![c].context = Len(contexts) + 1]
    /\ UNCHANGED <<restVars, sessionVars, objects, registered>>

\* new_page returns: the object is made and stored under the session id,
\* the row becomes active and is committed, start_monitoring creates the
\* flush task (it suspends nowhere), and the call awaits page.goto.
StartSessionPage(c) ==
    LET sid == start_calls[c].session_id IN
    /\ start_calls[c].pc = "page"
    /\ objects' = Append(objects, [session_id |-> sid,
                                   context |-> start_calls[c].context,
                                   stop_event |-> FALSE, flush_task |-> "sleep",
                                   stop_pc |-> "idle"])
    /\ registered' = DictSet(registered, sid, Len(objects) + 1)
    /\ active_sessions' = active_sessions \cup {sid}
    /\ sessions' = [sessions EXCEPT ![sid].status = "active",
                                    ![sid].started_at = Some(now)]
    /\ start_calls' = [start_calls EXCEPT ![c].pc = "goto"]
    /\ UNCHANGED <<restVars, engine, start_pc, network_events, console_errors,
                   connections, received, slog, contexts>>

\* page.goto returns and the call of c broadcasts the status and returns.
StartSessionGoto(c) ==
    LET sid == start_calls[c].session_id IN
    /\ start_calls[c].pc = "goto"
    /\ received' = broadcast(received, sid, StatusMessage("active"))
    /\ start_calls' = [start_calls EXCEPT ![c] = NoStartCall]
    /\ slog' = [slog EXCEPT ![sid] = "started"]
    /\ UNCHANGED <<restVars, sessions, active_sessions, engine, start_pc,
                   network_events, console_errors, connections,
                   contexts, objects, registered>>

\* stop_session up to the first suspension of stop() on the object the map
\* holds: the stop event is set and the flush task cancelled.  A session
\* without an object in the map raises ValueError.
StopSessionCall(sid) ==
    /\ sid \in DOMAIN sessions
    /\ IF sid \notin DOMAIN registered
       THEN /\ slog' = [slog EXCEPT ![sid] = "stop refused"]
            /\ UNCHANGED objects
       ELSE /\ objects[registered[sid]].stop_pc = "idle"
            /\ objects' = [objects EXCEPT
                  ![registered[sid]] = [@ EXCEPT !.stop_event = TRUE,
                                                 !.flush_task = "cancelled",
                                                 !.stop_pc = "tasks"]]
            /\ slog' = [slog EXCEPT ![sid] = "stopping"]
    /\ UNCHANGED <<restVars, sessions, active_sessions, engine, start_pc,
                   network_events, console_errors, connections, received,
                   start_calls, contexts, registered>>

\* stop() on object i goes on after its flush task has ended: nothing is
\* buffered, the context is closed, and stop_session deletes the entry of
\* the session id from the map (KeyError when there is none), writes the
\* row and broadcasts the status.
StopSessionReturn(i) ==
    LET sid == objects[i].session_id IN
    /\ i \in 1..Len(objects)
    /\ objects[i].stop_pc = "tasks"
    /\ objects' = [objects EXCEPT ![i] = [@ EXCEPT !.flush_task = "done",
                                                   !.stop_pc = "done"]]
    /\ contexts' = [contexts EXCEPT ![objects[i].context].state = "closed"]
    /\ IF sid \notin DOMAIN registered
       THEN /\ slog' = [slog EXCEPT ![sid] = "stop raised"]
            /\ UNCHANGED <<registered, active_sessions, sessions, received>>
       ELSE /\ registered' = DictDel(registered, sid)
            /\ active_sessions' = active_sessions \ {sid}
            /\ sessions' = [sessions EXCEPT ![sid].status = "stopped",
                                            ![sid].stopped_at = Some(now)]
            /\ received' = broadcast(received, sid, StatusMessage("stopped"))
            /\ slog' = [slog EXCEPT ![sid] = "stopped"]
    /\ UNCHANGED <<restVars, engine, start_pc, network_events, console_errors,
                   connections, start_calls>>

(***************************************************************************)
(* StreamingService: connect, disconnect and broadcast with the sends of   *)
(* broadcast taken one at a time.  A send to an open WebSocket writes the  *)
(* message and suspends the call; a send to a closed one raises.           *)
(***************************************************************************)
StreamMessage(k) == [type |-> "message", status |-> "", id |-> k]

\* StreamingService.connect from the return of websocket.accept().
connect(session_id, websocket) ==
    /\ sockets[websocket] = "new"
    /\ sockets' = [sockets EXCEPT ![websocket] = "open"]
    /\ connections' = DictSet(connections, session_id,
                              DictGet(connections, session_id, {}) \cup {websocket})
    /\ UNCHANGED <<now, storeVars, calls, breakerVars, returned, schedVars, startVars,
                   apiDebugVars, slaVars, sessions, active_sessions, engine,
                   start_pc, network_events, console_errors, received, slog,
                   broadcasts>>

\* The set operations of disconnect and of the end of broadcast: the
\* WebSockets are taken out of the set of the session, and a set that gets
\* empty is deleted.
discard(conns, session_id, gone) ==
    IF session_id \notin DOMAIN conns
    THEN conns
    ELSE IF conns[session_id] \ gone = {}
    THEN DictDel(conns, session_id)
    ELSE DictSet(conns, session_id, conns[session_id] \ gone)

\* StreamingService.disconnect.
disconnect(session_id, websocket) ==
    /\ sockets[websocket] # "new"
    /\ connections' = discard(connections, session_id, {websocket})
    /\ UNCHANGED <<now, storeVars, calls, breakerVars, returned, schedVars, startVars,
                   apiDebugVars, slaVars, sessions, active_sessions, engine,
                   start_pc, network_events, console_errors, received, slog,
                   streamVars>>

\* The peer of a WebSocket goes away: every later send to it raises.
SocketCloses(websocket) ==
    /\ sockets[websocket] = "open"
    /\ sockets' = [sockets EXCEPT ![websocket] = "closed"]
    /\ UNCHANGED <<now, storeVars, calls, breakerVars, returned, schedVars, startVars,
                   apiDebugVars, slaVars, sessionVars, broadcasts>>

\* Variant: the failed connections are never taken out.
broadcast_cleanup_skipped(b, conns) ==
    conns

\* The end of broadcast: the failed connections are taken out.
broadcast_cleanup(b, conns) ==
    IF b.failed = {} THEN conns ELSE discard(conns, b.session_id, b.failed)

\* The loop of broadcast from its next send to the send that suspends it,
\* or to its end.  w is [b, rx, conns]: the call, what the WebSockets were
\* sent and _connections.
RECURSIVE broadcast_loop(_)
broadcast_loop(w) ==
    IF w.b.todo = <<>>
    THEN [w EXCEPT !.b.pc = "done", !.conns = broadcast_cleanup(w.b, @)]
    ELSE LET websocket == Head(w.b.todo) IN
         IF sockets[websocket] = "open"
         THEN [w EXCEPT !.b.pc = "send",
                        !.rx[websocket] = Append(@, StreamMessage(w.b.message))]
         ELSE broadcast_loop([w EXCEPT !.b.todo = Tail(@),
                                       !.b.failed = @ \cup {websocket}])

\* A broadcast call is made for the session: the set of the session is
\* copied and the sends begin.  The message is numbered by the call.
BroadcastCall(session_id, max_broadcasts) ==
    /\ Len(broadcasts) < max_broadcasts
    /\ LET copy == DictGet(connections, session_id, {})
           InCopy(websocket) == websocket \in copy
           b == [session_id |-> session_id, message |-> Len(broadcasts) + 1,
                 copy |-> copy, todo |-> SelectSeq(SocketOrder, InCopy),
                 failed |-> {}, pc |-> "send"]
           w == broadcast_loop([b |-> b, rx |-> received, conns |-> connections])
       IN /\ broadcasts' = Append(broadcasts, w.b)
          /\ received' = w.rx
          /\ connections' = w.conns
    /\ UNCHANGED <<now, storeVars, calls, breakerVars, returned, schedVars, startVars,
                   apiDebugVars, slaVars, sessions, active_sessions, engine,
                   start_pc, network_events, console_errors, slog, sockets>>

\* The send the k-th broadcast call awaits returns, or raises when the
\* WebSocket was closed meanwhile, and the loop goes on.
BroadcastSendReturns(k) ==
    /\ k \in 1..Len(broadcasts)
    /\ broadcasts[k].pc = "send"
    /\ LET b == broadcasts[k]
           websocket == Head(b.todo)
           b1 == [b EXCEPT !.todo = Tail(@),
                           !.failed = IF sockets[websocket] = "open"
                                      THEN @ ELSE @ \cup {websocket}]
           w == broadcast_loop([b |-> b1, rx |-> received, conns |-> connections])
       IN /\ broadcasts' = [broadcasts EXCEPT ![k] = w.b]
          /\ received' = w.rx
          /\ connections' = w.conns
    /\ UNCHANGED <<now, storeVars, calls, breakerVars, returned, schedVars, startVars,
                   apiDebugVars, slaVars, sessions, active_sessions, engine,
                   start_pc, network_events, console_errors, slog, sockets>>

(***************************************************************************)
(* SLAAnalyticsService (services/sla_analytics.py)                         *)
(*                                                                         *)
(* A datetime is the number of seconds since 2024-01-01 00:00 UTC, a       *)
(* Monday.  A str made by datetime.isoformat() is the record [iso |-> t]:  *)
(* it is not a datetime, and nothing in the service parses it back.  The   *)
(* fields of an SLAMetrics hold objects of either type, so a datetime      *)
(* stored there is written [datetime |-> t].  A float is the exact         *)
(* fraction [num, den] of the integers it is computed from.                *)
(***************************************************************************)
\* SLAAnalyticsService.__init__; _cache maps a key to a CacheEntry.  No
\* Redis client is configured (_redis_client is None).
SLAAnalyticsService(enable_cache) ==
    [enable_cache |-> enable_cache, cache |-> EmptyDict]

isoformat(t) == [iso |-> t]

Datetime(t) == [datetime |-> t]

Float(n, d) == [num |-> n, den |-> d]

Larger(a, b) == IF a >= b THEN a ELSE b
Smaller(a, b) == IF a <= b THEN a ELSE b

\* The rows of the two tables the service queries.
MonitorCheckRow(monitor_id, checked_at, is_up, response_time_ms) ==
    [monitor_id |-> monitor_id, checked_at |-> checked_at, is_up |-> is_up,
     response_time_ms |-> response_time_ms]

DowntimeWindowRow(monitor_id, started_at, ended_at) ==
    [monitor_id |-> monitor_id, started_at |-> started_at, ended_at |-> ended_at]

CacheEntry(value, ttl_seconds, at) == [value |-> value, expires_at |-> at + ttl_seconds]

is_expired_never(entry, at) ==
    FALSE

is_expired(entry, at) ==
    at > entry.expires_at

get_cache_key(monitor_id, start_time, end_time, bucket) ==
    <<"sla", monitor_id, isoformat(start_time), isoformat(end_time), bucket>>

\* _get_from_cache: the value found, if any, and the service afterwards (an
\* expired entry is deleted).
get_from_cache(svc, key, at) ==
    IF ~svc.enable_cache THEN [cached |-> None, svc |-> svc]
    ELSE IF key \in DOMAIN svc.cache /\ ~is_expired(svc.cache[key], at)
         THEN [cached |-> Some(svc.cache[key].value), svc |-> svc]
    ELSE IF key \in DOMAIN svc.cache
         THEN [cached |-> None, svc |-> [svc EXCEPT !.cache = DictDel(@, key)]]
    ELSE [cached |-> None, svc |-> svc]

set_in_cache(svc, key, value, at) ==
    IF ~svc.enable_cache THEN svc
    ELSE [svc EXCEPT !.cache = DictSet(@, key, CacheEntry(value, cache_ttl_seconds, at))]

\* The query of lines 166-170.
checks_in_range(rows, monitor_id, start_time, end_time) ==
    SelectSeq(rows, LAMBDA c : /\ c.monitor_id = monitor_id
                               /\ c.checked_at >= start_time
                               /\ c.checked_at <= end_time)

\* The query of lines 191-203.
windows_in_range(rows, monitor_id, start_time, end_time) ==
    SelectSeq(rows, LAMBDA w :
        /\ w.monitor_id = monitor_id
        /\ \/ w.started_at <= end_time /\ w.ended_at # None /\ Value(w.ended_at) >= start_time
           \/ w.started_at <= end_time /\ w.ended_at = None)

\* The loop of lines 205-211, without the clipping to the range.
RECURSIVE downtime_unclipped(_, _, _)
downtime_unclipped(rows, start_time, end_time) ==
    IF rows = <<>> THEN 0
    ELSE LET window == Head(rows)
             window_start == window.started_at
             window_end == IF window.ended_at # None THEN Value(window.ended_at)
                           ELSE end_time
         IN (IF window_end > window_start THEN window_end - window_start ELSE 0)
            + downtime_unclipped(Tail(rows), start_time, end_time)

\* The loop of lines 205-211.
RECURSIVE downtime(_, _, _)
downtime(rows, start_time, end_time) ==
    IF rows = <<>> THEN 0
    ELSE LET window == Head(rows)
             window_start == Larger(window.started_at, start_time)
             window_end == Smaller(IF window.ended_at # None THEN Value(window.ended_at)
                                   ELSE end_time, end_time)
         IN (IF window_end > window_start THEN window_end - window_start ELSE 0)
            + downtime(Tail(rows), start_time, end_time)

\* The default of the percentiles argument (lines 156-157).
DefaultPercentiles == <<50, 75, 90, 95, 99>>

\* The key f"p{p}" of a percentile.
percentile_key(p) == <<"p", p>>

RECURSIVE sorted(_)
sorted(xs) ==
    IF xs = <<>> THEN <<>>
    ELSE LET rest == sorted(Tail(xs))
             below == SelectSeq(rest, LAMBDA x : x < Head(xs))
             above == SelectSeq(rest, LAMBDA x : x >= Head(xs))
         IN below \o <<Head(xs)>> \o above

\* np.percentile(xs, p) of a non-empty list: linear interpolation between
\* the two closest ranks, as an exact fraction.
np_percentile(xs, p) ==
    LET s == sorted(xs)
        rank == (Len(xs) - 1) * p
        lo == rank \div 100
        hi == IF lo + 1 <= Len(xs) - 1 THEN lo + 1 ELSE lo
    IN Float(s[lo + 1] * 100 + (s[hi + 1] - s[lo + 1]) * (rank % 100), 100)

\* The dict of lines 183-189: one entry for each percentile asked for.
percentile_response_times(response_times, percentiles) ==
    [k \in {percentile_key(percentiles[i]) : i \in 1..Len(percentiles)} |->
        IF response_times # <<>>
        THEN Some(np_percentile(response_times, k[2]))
        ELSE None]

\* Lines 164-226 with failed checks counted as downtime.
compute_metrics_from_checks(check_rows, window_rows, monitor_id, start_time, end_time, percentiles) ==
    LET total_period_seconds == end_time - start_time
        cs == checks_in_range(check_rows, monitor_id, start_time, end_time)
        successful_checks == SelectSeq(cs, LAMBDA c : c.is_up)
        failed_checks == SelectSeq(cs, LAMBDA c : ~c.is_up)
        response_times ==
            LET timed == SelectSeq(successful_checks,
                                   LAMBDA c : c.response_time_ms # None)
            IN [i \in 1..Len(timed) |-> Value(timed[i].response_time_ms)]
        ws == windows_in_range(window_rows, monitor_id, start_time, end_time)
        total_downtime_seconds == downtime(ws, start_time, end_time) + Len(failed_checks)
        uptime_seconds == total_period_seconds - total_downtime_seconds
    IN [start_time |-> Datetime(start_time),
        end_time |-> Datetime(end_time),
        availability_percent |-> IF total_period_seconds > 0
                                 THEN Float(uptime_seconds * 100, total_period_seconds)
                                 ELSE Float(100, 1),
        response_times |-> response_times,
        percentile_response_times |->
            percentile_response_times(response_times, percentiles),
        failure_count |-> Len(failed_checks),
        total_downtime_seconds |-> total_downtime_seconds,
        total_checks |-> Len(cs),
        successful_checks |-> Len(successful_checks)]

\* Lines 164-226: the SLAMetrics computed from the Store.  response_times
\* stands for mean_response_time_ms, which is a function of that list alone.
compute_metrics(check_rows, window_rows, monitor_id, start_time, end_time, percentiles) ==
    LET total_period_seconds == end_time - start_time
        cs == checks_in_range(check_rows, monitor_id, start_time, end_time)
        successful_checks == SelectSeq(cs, LAMBDA c : c.is_up)
        failed_checks == SelectSeq(cs, LAMBDA c : ~c.is_up)
        response_times ==
            LET timed == SelectSeq(successful_checks,
                                   LAMBDA c : c.response_time_ms # None)
            IN [i \in 1..Len(timed) |-> Value(timed[i].response_time_ms)]
        ws == windows_in_range(window_rows, monitor_id, start_time, end_time)
        total_downtime_seconds == downtime(ws, start_time, end_time)
        uptime_seconds == total_period_seconds - total_downtime_seconds
    IN [start_time |-> Datetime(start_time),
        end_time |-> Datetime(end_time),
        availability_percent |-> IF total_period_seconds > 0
                                 THEN Float(uptime_seconds * 100, total_period_seconds)
                                 ELSE Float(100, 1),
        response_times |-> response_times,
        percentile_response_times |->
            percentile_response_times(response_times, percentiles),
        failure_count |-> Len(failed_checks),
        total_downtime_seconds |-> total_downtime_seconds,
        total_checks |-> Len(cs),
        successful_checks |-> Len(successful_checks)]

\* The dict stored in the cache (lines 228-238): the metrics with start_time
\* and end_time as isoformat strings.
cached_dict(metrics, start_time, end_time) ==
    [metrics EXCEPT !.start_time = isoformat(start_time),
                    !.end_time = isoformat(end_time)]

\* calculate_metrics: what it returns and the service afterwards.  A cached
\* dict is always truthy, and SLAMetrics(**cached) keeps its values as they
\* are.
calculate_metrics(svc, check_rows, window_rows, monitor_id, start_time, end_time, percentiles, at) ==
    LET asked == IF percentiles = None THEN DefaultPercentiles ELSE Value(percentiles)
        cache_key == get_cache_key(monitor_id, start_time, end_time, "none")
        got == get_from_cache(svc, cache_key, at)
        metrics == compute_metrics(check_rows, window_rows, monitor_id, start_time,
                                   end_time, asked)
    IN IF got.cached # None
       THEN [metrics |-> Value(got.cached), svc |-> got.svc]
       ELSE [metrics |-> metrics,
             svc |-> set_in_cache(got.svc, cache_key,
                                 cached_dict(metrics, start_time, end_time), at)]

\* clear_cache
clear_cache(svc) == [svc EXCEPT !.cache = EmptyDict]

(***************************************************************************)
(* _generate_buckets.  The calendar starts at 2024-12-01 00:00 UTC, a       *)
(* Sunday, which is datetime 0 here, and covers the months of Calendar.    *)
(***************************************************************************)
Calendar ==
    <<[year |-> 2024, month |-> 12, days |-> 31],
      [year |-> 2025, month |-> 1, days |-> 31],
      [year |-> 2025, month |-> 2, days |-> 28],
      [year |-> 2025, month |-> 3, days |-> 31]>>

\* The number of the day on which the i-th month of Calendar starts.
RECURSIVE MonthStartDay(_)
MonthStartDay(i) ==
    IF i = 1 THEN 0 ELSE MonthStartDay(i - 1) + Calendar[i - 1].days

DayOf(t) == t \div SecondsPerDay

\* datetime.weekday(): Monday is 0.
weekday(t) == (DayOf(t) + 6) % 7

\* The month of Calendar that holds t.
MonthOf(t) ==
    CHOOSE i \in 1..Len(Calendar) :
        /\ MonthStartDay(i) <= DayOf(t)
        /\ DayOf(t) < MonthStartDay(i) + Calendar[i].days

\* datetime(year, month, 1)
FirstOf(year, month) ==
    LET i == CHOOSE k \in 1..Len(Calendar) :
                 Calendar[k].year = year /\ Calendar[k].month = month
    IN MonthStartDay(i) * SecondsPerDay

\* t.replace(hour=0, minute=0, second=0, microsecond=0)
midnight(t) == DayOf(t) * SecondsPerDay

\* The loop of lines 306-310.
RECURSIVE day_buckets(_, _, _, _)
day_buckets(current, start_time, end_time, buckets) ==
    IF ~(current < end_time) THEN buckets
    ELSE LET bucket_end == Smaller(current + SecondsPerDay, end_time)
         IN day_buckets(current + SecondsPerDay, start_time, end_time,
                        IF current >= start_time
                        THEN Append(buckets, <<current, bucket_end>>)
                        ELSE buckets)

\* The loop of lines 315-320.
RECURSIVE week_buckets(_, _, _, _)
week_buckets(current, start_time, end_time, buckets) ==
    IF ~(current < end_time) THEN buckets
    ELSE LET bucket_end == Smaller(current + 7 * SecondsPerDay, end_time)
             actual_start == Larger(current, start_time)
         IN week_buckets(current + 7 * SecondsPerDay, start_time, end_time,
                         IF current >= start_time \/ bucket_end > start_time
                         THEN Append(buckets, <<actual_start, bucket_end>>)
                         ELSE buckets)

\* The loop of lines 324-332.
RECURSIVE month_buckets(_, _, _, _)
month_buckets(current, start_time, end_time, buckets) ==
    IF ~(current < end_time) THEN buckets
    ELSE LET c == Calendar[MonthOf(current)]
             next_month == IF c.month = 12 THEN FirstOf(c.year + 1, 1)
                           ELSE FirstOf(c.year, c.month + 1)
             bucket_end == Smaller(next_month, end_time)
         IN month_buckets(next_month, start_time, end_time,
                          IF current >= start_time
                          THEN Append(buckets, <<current, bucket_end>>)
                          ELSE buckets)

generate_buckets(start_time, end_time, bucket_type) ==
    CASE bucket_type = "day" ->
            day_buckets(midnight(start_time), start_time, end_time, <<>>)
      [] bucket_type = "week" ->
            week_buckets(midnight(start_time - weekday(start_time) * SecondsPerDay),
                         start_time, end_time, <<>>)
      [] bucket_type = "month" ->
            LET c == Calendar[MonthOf(start_time)]
            IN month_buckets(FirstOf(c.year, c.month), start_time, end_time, <<>>)
      [] OTHER -> <<>>

\* The loop of lines 269-274: calculate_metrics for each bucket in turn, each
\* call using and filling the cache.
RECURSIVE bucket_metrics(_, _, _, _, _, _, _, _)
bucket_metrics(svc, check_rows, window_rows, monitor_id, buckets, percentiles, at, results) ==
    IF buckets = <<>> THEN [results |-> results, svc |-> svc]
    ELSE LET r == calculate_metrics(svc, check_rows, window_rows, monitor_id,
                                    Head(buckets)[1], Head(buckets)[2], percentiles, at)
         IN bucket_metrics(r.svc, check_rows, window_rows, monitor_id, Tail(buckets),
                           percentiles, at, Append(results, r.metrics))

\* get_bucketed_metrics: what it returns and the service afterwards.  A
\* cached empty list is falsy and is computed again.  m.start_time.isoformat()
\* raises AttributeError for a result that calculate_metrics took from the
\* cache, whose start_time is a string.
get_bucketed_metrics(svc, check_rows, window_rows, monitor_id, start_time, end_time, bucket_type, percentiles, at) ==
    LET cache_key == get_cache_key(monitor_id, start_time, end_time, bucket_type)
        got == get_from_cache(svc, cache_key, at)
        buckets == generate_buckets(start_time, end_time, bucket_type)
        computed == bucket_metrics(got.svc, check_rows, window_rows, monitor_id,
                                   buckets, percentiles, at, <<>>)
        results == computed.results
    IN IF got.cached # None /\ Value(got.cached) # <<>>
       THEN [results |-> Value(got.cached), raised |-> FALSE, svc |-> got.svc]
       ELSE IF \E i \in 1..Len(results) : "iso" \in DOMAIN results[i].start_time
       THEN [results |-> <<>>, raised |-> TRUE, svc |-> computed.svc]
       ELSE [results |-> results, raised |-> FALSE,
             svc |-> set_in_cache(computed.svc, cache_key,
                        [i \in 1..Len(results) |->
                            cached_dict(results[i], results[i].start_time.datetime,
                                        results[i].end_time.datetime)],
                        at)]

\* A call of _generate_buckets; answers records the call and what it returned.
GenerateBuckets(start_time, end_time, bucket_type) ==
    /\ answers = <<>>
    /\ start_time <= end_time
    /\ answers' = <<[start_time |-> start_time, end_time |-> end_time,
                     bucket_type |-> bucket_type,
                     buckets |-> generate_buckets(start_time, end_time, bucket_type)]>>
    /\ UNCHANGED <<now, storeVars, calls, breakerVars, returned, schedVars, startVars, apiDebugVars,
                   sessionVars, streamVars, monitor_checks, downtime_windows, sla>>

\* A MonitorCheck row is added to the Store, checked at the current time.
AddMonitorCheck(monitor_id, is_up, max_checks) ==
    /\ Len(monitor_checks) < max_checks
    /\ monitor_checks' = Append(monitor_checks,
          MonitorCheckRow(monitor_id, now, is_up, IF is_up THEN Some(100) ELSE None))
    /\ UNCHANGED <<now, storeVars, calls, breakerVars, returned, schedVars, startVars, apiDebugVars,
                   sessionVars, streamVars, downtime_windows, sla, answers>>

\* A DowntimeWindow row is added to the Store.
AddDowntimeWindow(monitor_id, started_at, ended_at, max_windows) ==
    /\ Len(downtime_windows) < max_windows
    /\ ended_at # None => Value(ended_at) >= started_at
    /\ downtime_windows' = Append(downtime_windows,
                                  DowntimeWindowRow(monitor_id, started_at, ended_at))
    /\ UNCHANGED <<now, storeVars, calls, breakerVars, returned, schedVars, startVars, apiDebugVars,
                   sessionVars, streamVars, monitor_checks, sla, answers>>

\* A call of calculate_metrics; answers records the call and what it returned.
CalculateMetrics(monitor_id, start_time, end_time, percentiles, max_queries) ==
    /\ Len(answers) < max_queries
    /\ start_time <= end_time
    /\ LET r == calculate_metrics(sla, monitor_checks, downtime_windows,
                                  monitor_id, start_time, end_time, percentiles, now)
       IN /\ sla' = r.svc
          /\ answers' = Append(answers, [monitor_id |-> monitor_id,
                                         start_time |-> start_time,
                                         end_time |-> end_time,
                                         percentiles |-> percentiles,
                                         at |-> now,
                                         metrics |-> r.metrics])
    /\ UNCHANGED <<now, storeVars, calls, breakerVars, returned, schedVars, startVars, apiDebugVars,
                   sessionVars, streamVars, monitor_checks, downtime_windows>>

\* A MonitorCheck row with the timestamp checked_at is added to the Store.
AddMonitorCheckAt(monitor_id, checked_at, is_up, max_checks) ==
    /\ Len(monitor_checks) < max_checks
    /\ monitor_checks' = Append(monitor_checks,
          MonitorCheckRow(monitor_id, checked_at, is_up, IF is_up THEN Some(100) ELSE None))
    /\ UNCHANGED <<now, storeVars, calls, breakerVars, returned, schedVars, startVars, apiDebugVars,
                   sessionVars, streamVars, downtime_windows, sla, answers>>

\* A call of get_bucketed_metrics; answers records the call and what it
\* returned.
GetBucketedMetrics(monitor_id, start_time, end_time, bucket_type, percentiles, max_queries) ==
    /\ Len(answers) < max_queries
    /\ start_time <= end_time
    /\ LET r == get_bucketed_metrics(sla, monitor_checks, downtime_windows, monitor_id,
                                     start_time, end_time, bucket_type, percentiles, now)
       IN /\ sla' = r.svc
          /\ answers' = Append(answers, [monitor_id |-> monitor_id,
                                         start_time |-> start_time,
                                         end_time |-> end_time,
                                         bucket_type |-> bucket_type,
                                         percentiles |-> percentiles,
                                         at |-> now,
                                         raised |-> r.raised,
                                         results |-> r.results])
    /\ UNCHANGED <<now, storeVars, calls, breakerVars, returned, schedVars, startVars, apiDebugVars,
                   sessionVars, streamVars, monitor_checks, downtime_windows>>

\* The rows perform_check has written for a target, as the queries of
\* SLAAnalyticsService read them from the tables monitor_checks and
\* downtime_windows.
StoreCheckRows(id) ==
    [i \in 1..Len(checks[id]) |->
        MonitorCheckRow(id, checks[id][i].timestamp, checks[id][i].is_available,
                        IF checks[id][i].is_available THEN Some(100) ELSE None)]

StoreWindowRows(id) ==
    [i \in 1..Len(windows[id]) |->
        DowntimeWindowRow(id, windows[id][i].start_time, windows[id][i].end_time)]

\* A call of calculate_metrics for a target that perform_check monitors;
\* answers records the call and what it returned.
CalculateStoreMetrics(monitor_id, start_time, end_time, max_queries) ==
    /\ Len(answers) < max_queries
    /\ start_time <= end_time
    /\ LET r == calculate_metrics(sla, StoreCheckRows(monitor_id),
                                  StoreWindowRows(monitor_id), monitor_id,
                                  start_time, end_time, None, now)
       IN /\ sla' = r.svc
          /\ answers' = Append(answers, [monitor_id |-> monitor_id,
                                         start_time |-> start_time,
                                         end_time |-> end_time,
                                         percentiles |-> None,
                                         at |-> now,
                                         metrics |-> r.metrics])
    /\ UNCHANGED <<now, storeVars, calls, breakerVars, returned, schedVars, startVars, apiDebugVars,
                   sessionVars, streamVars, monitor_checks, downtime_windows>>

\* A call of clear_cache.
ClearCache ==
    /\ sla.cache # EmptyDict
    /\ sla' = clear_cache(sla)
    /\ UNCHANGED <<now, storeVars, calls, breakerVars, returned, schedVars, startVars, apiDebugVars,
                   sessionVars, streamVars, monitor_checks, downtime_windows, answers>>

(***************************************************************************)
(* Initial states                                                          *)
(***************************************************************************)
\* conns is what StreamingService._connections holds.
InitState(websites0, conns, enable_cache) ==
    /\ now = 0
    /\ websites = websites0
    /\ checks = [id \in WebsiteIds |-> <<>>]
    /\ windows = [id \in WebsiteIds |-> <<>>]
    /\ calls = [id \in WebsiteIds |-> 0]
    /\ failures = EmptyDict
    /\ blocked_until = EmptyDict
    /\ streak = [id \in WebsiteIds |-> 0]
    /\ returned = None
    /\ started = FALSE
    /\ job_ids = EmptyDict
    /\ sched_jobs = EmptyDict
    /\ running = {}
    /\ log = [id \in WebsiteIds |-> ""]
    /\ raises = [id \in WebsiteIds |-> 0]
    /\ inflight = [id \in WebsiteIds |-> 0]
    /\ debug_sessions = <<>>
    /\ queues = {}
    /\ sessions = EmptyDict
    /\ active_sessions = {}
    /\ engine = [sid \in SessionIds |-> NoEngine]
    /\ start_pc = [sid \in SessionIds |-> "idle"]
    /\ network_events = [sid \in SessionIds |-> <<>>]
    /\ console_errors = [sid \in SessionIds |-> <<>>]
    /\ connections = conns
    /\ received = [sub \in Subscribers |-> <<>>]
    /\ slog = [sid \in SessionIds |-> ""]
    /\ sockets = [ws \in Subscribers |-> IF \E sid \in DOMAIN conns : ws \in conns[sid]
                                         THEN "open" ELSE "new"]
    /\ broadcasts = <<>>
    /\ monitor_checks = <<>>
    /\ downtime_windows = <<>>
    /\ sla = SLAAnalyticsService(enable_cache)
    /\ answers = <<>>
    /\ start_calls = [c \in StopCallers |-> NoStartCall]
    /\ contexts = <<>>
    /\ objects = <<>>
    /\ registered = EmptyDict

\* The state after construction with the cache of SLAAnalyticsService on.
InitAll(ws, conns) == InitState(ws, conns, TRUE)

InitWith(ws) == InitAll(ws, EmptyDict)

AllEnabled == [id \in WebsiteIds |-> Website(TRUE, DefaultCheckInterval)]

(***************************************************************************)
(* SpecMonitoring: perform_check called directly on the Store, with calls  *)
(* for the same website in flight together; the two clock reads of a call  *)
(* give the same second.                                                   *)
(***************************************************************************)
InitMonitoring == InitWith(AllEnabled)

NextMonitoring ==
    \/ Tick(MonitoringHorizon)
    \/ delete_website
    \/ PerformCheckCall
    \/ PerformCheckReturn({0}, MonitoringHorizon)

SpecMonitoring == InitMonitoring /\ [][NextMonitoring]_vars

(***************************************************************************)
(* SpecClock: perform_check called directly for one website, with calls in *)
(* flight together, and a clock that goes on between the two reads of a    *)
(* call and not otherwise.                                                 *)
(***************************************************************************)
InitClock == InitWith([id \in {1} |-> Website(TRUE, MinCheckInterval)])

NextClock ==
    \/ PerformCheckCall
    \/ PerformCheckReturn(ReadDelays, ClockHorizon)

SpecClock == InitClock /\ [][NextClock]_vars

(***************************************************************************)
(* SpecWindows: perform_check writes the windows of one website as in      *)
(* SpecClock, and calculate_metrics is called for it over every range of   *)
(* the horizon.                                                            *)
(***************************************************************************)
QueryTimes == 0..ClockHorizon

NextWindows ==
    \/ PerformCheckCall
    \/ PerformCheckReturn(ReadDelays, ClockHorizon)
    \/ \E start_time \in QueryTimes, end_time \in QueryTimes :
          CalculateStoreMetrics(1, start_time, end_time, MaxWindowQueries)

SpecWindows == InitClock /\ [][NextWindows]_vars

(***************************************************************************)
(* SpecBreaker: the CircuitBreaker alone, its methods called in any order. *)
(***************************************************************************)
InitBreaker == InitWith(AllEnabled)

NextBreaker ==
    \/ Tick(BreakerHorizon)
    \/ \E id \in WebsiteIds : CallRecordFailure(id)
    \/ \E id \in WebsiteIds : CallRecordSuccess(id)
    \/ \E id \in WebsiteIds : CallIsBlocked(id)

SpecBreaker == InitBreaker /\ [][NextBreaker]_vars

(***************************************************************************)
(* Spec: the firings of one website's job, with the breaker, while the     *)
(* website is updated or deleted and the jobs are synced.                  *)
(***************************************************************************)
Init ==
    \E ws \in [{1} -> [enabled : BOOLEAN, check_interval : CheckIntervals]] :
        InitWith(ws)

Next ==
    \/ Tick(SchedulerHorizon)
    \/ update_website
    \/ delete_website
    \/ start
    \/ SyncJobs
    \/ \E id \in WebsiteIds, read_ok \in BOOLEAN : FireJob(id, read_ok, MaxFiringChecks)
    \/ \E id \in WebsiteIds, result \in ProbeResults, db_ok \in BOOLEAN :
          WrapperReturn(id, result, db_ok)

Spec == Init /\ [][Next]_vars

(***************************************************************************)
(* SpecOutage: one enabled website checked every minute, its configuration *)
(* left alone (scenario S4).                                               *)
(***************************************************************************)
InitOutage == InitWith([id \in {1} |-> Website(TRUE, MinCheckInterval)])

NextOutage ==
    \/ Tick(OutageHorizon)
    \/ start
    \/ \E id \in WebsiteIds, read_ok \in BOOLEAN : FireJob(id, read_ok, MaxOutageChecks)
    \/ \E id \in WebsiteIds, result \in ProbeResults, db_ok \in BOOLEAN :
          WrapperReturn(id, result, db_ok)

SpecOutage == InitOutage /\ [][NextOutage]_vars

(***************************************************************************)
(* SpecJobs: the job map against a Store of two websites that are created, *)
(* updated and deleted.                                                    *)
(***************************************************************************)
InitJobs ==
    \E ws \in UNION {[S -> [enabled : BOOLEAN, check_interval : CheckIntervals]] :
                       S \in SUBSET WebsiteIds} : InitWith(ws)

NextJobs ==
    \/ Tick(JobsHorizon)
    \/ create_website
    \/ update_website
    \/ delete_website
    \/ start
    \/ SyncJobs
    \/ \E id \in WebsiteIds, read_ok \in BOOLEAN : FireJob(id, read_ok, MaxJobsChecks)
    \/ \E id \in WebsiteIds, result \in ProbeResults, db_ok \in BOOLEAN :
          WrapperReturn(id, result, db_ok)

SpecJobs == InitJobs /\ [][NextJobs]_vars

(***************************************************************************)
(* SpecFirings: the jobs of two enabled websites while the event loop may  *)
(* stall and the jobs are synced during a firing.                          *)
(***************************************************************************)
InitFirings ==
    \E ws \in [WebsiteIds -> [enabled : {TRUE}, check_interval : CheckIntervals]] :
        InitWith(ws)

NextFirings ==
    \/ Tick(FiringsHorizon)
    \/ Stall(FiringsHorizon)
    \/ start
    \/ SyncJobs
    \/ \E id \in WebsiteIds, read_ok \in BOOLEAN : FireJob(id, read_ok, MaxFiringsChecks)
    \/ \E id \in WebsiteIds : MissJob(id)
    \/ \E id \in WebsiteIds, result \in ProbeResults, db_ok \in BOOLEAN :
          WrapperReturn(id, result, db_ok)

SpecFirings == InitFirings /\ [][NextFirings]_vars

(***************************************************************************)
(* SpecDebugApi: debug sessions started and stopped through DebugService   *)
(* on a Store of two websites.                                             *)
(***************************************************************************)
InitDebugApi == InitWith(AllEnabled)

NextDebugApi ==
    \/ Tick(DebugApiHorizon)
    \/ \E website_id \in WebsiteIds \cup {MissingWebsiteId} :
          start_debug_session(website_id)
    \/ \E session_id \in 1..MaxApiSessions : stop_debug_session(session_id)

SpecDebugApi == InitDebugApi /\ [][NextDebugApi]_vars

(***************************************************************************)
(* SpecTargets: two debug sessions of one target URL are created, started  *)
(* and stopped; no step raises.                                            *)
(***************************************************************************)
InitTargets == InitWith(AllEnabled)

NextTargets ==
    \/ Tick(TargetsHorizon)
    \/ \E target_url \in TargetUrls, duration_limit \in RequestedLimits :
          create_session(target_url, duration_limit, MaxSessions)
    \/ \E sid \in SessionIds : StartCall(sid)
    \/ \E sid \in SessionIds : StartContext(sid, "ok", TRUE)
    \/ \E sid \in SessionIds : StartGoto(sid, TRUE, TRUE)
    \/ \E sid \in SessionIds : stop_session(sid, "a")
    \/ \E sid \in SessionIds : TasksEnd(sid)
    \/ \E sid \in SessionIds : StopTasksDone(sid, "a", TRUE)
    \/ \E sid \in SessionIds : StopClose(sid, "a", TRUE)

SpecTargets == InitTargets /\ [][NextTargets]_vars

(***************************************************************************)
(* SpecLifecycle: one debug session is created, started with any step      *)
(* failing, stopped, or runs into its deadline.                            *)
(***************************************************************************)
StartOutcomes == {"ok", "context", "page", "commit", "attach"}

InitLifecycle == InitWith(AllEnabled)

NextLifecycle ==
    \/ Tick(LifecycleHorizon)
    \/ \E target_url \in TargetUrls, duration_limit \in DurationLimits :
          create_session(target_url, duration_limit, MaxLifecycleSessions)
    \/ \E sid \in SessionIds : StartCall(sid)
    \/ \E sid \in SessionIds, outcome \in StartOutcomes, commit_ok \in BOOLEAN :
          StartContext(sid, outcome, commit_ok)
    \/ \E sid \in SessionIds, nav_ok \in BOOLEAN, commit_ok \in BOOLEAN :
          StartGoto(sid, nav_ok, commit_ok)
    \/ \E sid \in SessionIds, c \in StopCallers : stop_session(sid, c)
    \/ \E sid \in SessionIds : TasksEnd(sid)
    \/ \E sid \in SessionIds, c \in Invokers \ {"periodic"} :
          StopTasksDone(sid, c, TRUE)
    \/ \E sid \in SessionIds, c \in Invokers \ {"periodic"}, commit_ok \in BOOLEAN :
          StopClose(sid, c, commit_ok)
    \/ \E sid \in SessionIds : PeriodicFlush(sid, TRUE)
    \/ \E sid \in SessionIds : TimeoutFires(sid)

SpecLifecycle == InitLifecycle /\ [][NextLifecycle]_vars

(***************************************************************************)
(* SpecCapture: one session with a subscriber connected throughout; the    *)
(* page delivers events while the session is started, flushed and stopped  *)
(* by up to two overlapping calls.  No step raises.                        *)
(***************************************************************************)
InitCapture == InitAll(AllEnabled, [sid \in SessionIds |-> {"ws1"}])

NextCapture ==
    \/ \E target_url \in TargetUrls : create_session(target_url, 0, MaxCaptureSessions)
    \/ \E sid \in SessionIds : StartCall(sid)
    \/ \E sid \in SessionIds : StartContext(sid, "ok", TRUE)
    \/ \E sid \in SessionIds : StartGoto(sid, TRUE, TRUE)
    \/ \E sid \in SessionIds, c \in StopCallers : stop_session(sid, c)
    \/ \E sid \in SessionIds : TasksEnd(sid)
    \/ \E sid \in SessionIds, c \in StopCallers : StopTasksDone(sid, c, TRUE)
    \/ \E sid \in SessionIds, invoker \in Invokers : SendReturns(sid, invoker)
    \/ \E sid \in SessionIds, c \in StopCallers : StopClose(sid, c, TRUE)
    \/ \E sid \in SessionIds : PeriodicFlush(sid, TRUE)
    \/ \E sid \in SessionIds : HandleRequest(sid, MaxEvents)
    \/ \E sid \in SessionIds : HandleResponse(sid, MaxEvents)
    \/ \E sid \in SessionIds : HandleResponseAppend(sid)
    \/ \E sid \in SessionIds, level \in {"error", "log"} :
          HandleConsole(sid, level, MaxErrors)

SpecCapture == InitCapture /\ [][NextCapture]_vars

(***************************************************************************)
(* SpecFlush: one session without subscribers; the page delivers events    *)
(* while the session is started, flushed and stopped, and the commit of    *)
(* any flush may raise.                                                    *)
(***************************************************************************)
InitFlush == InitWith(AllEnabled)

NextFlush ==
    \/ \E target_url \in TargetUrls : create_session(target_url, 0, MaxCaptureSessions)
    \/ \E sid \in SessionIds : StartCall(sid)
    \/ \E sid \in SessionIds : StartContext(sid, "ok", TRUE)
    \/ \E sid \in SessionIds : StartGoto(sid, TRUE, TRUE)
    \/ \E sid \in SessionIds, c \in StopCallers : stop_session(sid, c)
    \/ \E sid \in SessionIds : TasksEnd(sid)
    \/ \E sid \in SessionIds, c \in StopCallers, ok \in BOOLEAN :
          StopTasksDone(sid, c, ok)
    \/ \E sid \in SessionIds, c \in StopCallers : StopClose(sid, c, TRUE)
    \/ \E sid \in SessionIds, ok \in BOOLEAN : PeriodicFlush(sid, ok)
    \/ \E sid \in SessionIds : HandleRequest(sid, MaxEvents)
    \/ \E sid \in SessionIds, level \in {"error", "log"} :
          HandleConsole(sid, level, MaxErrors)

SpecFlush == InitFlush /\ [][NextFlush]_vars


(***************************************************************************)
(* SpecStarts: start_session calls for the same session overlap, and the   *)
(* session is stopped; no step raises.                                     *)
(***************************************************************************)
InitStarts == InitWith(AllEnabled)

NextStarts ==
    \/ \E target_url \in TargetUrls : create_session(target_url, 0, MaxStartSessions)
    \/ \E c \in StopCallers, sid \in SessionIds : start_session(c, sid)
    \/ \E c \in StopCallers : StartSessionContext(c)
    \/ \E c \in StopCallers : StartSessionPage(c)
    \/ \E c \in StopCallers : StartSessionGoto(c)
    \/ \E sid \in SessionIds : StopSessionCall(sid)
    \/ \E i \in 1..Len(objects) : StopSessionReturn(i)

SpecStarts == InitStarts /\ [][NextStarts]_vars


(***************************************************************************)
(* SpecOrder: one session with a subscriber connected throughout; the page *)
(* makes requests while the session is started, flushed and stopped by up  *)
(* to two overlapping calls.  No step raises.                              *)
(***************************************************************************)
InitOrder == InitAll(AllEnabled, [sid \in SessionIds |-> {"ws1"}])

NextOrder ==
    \/ \E target_url \in TargetUrls : create_session(target_url, 0, MaxCaptureSessions)
    \/ \E sid \in SessionIds : StartCall(sid)
    \/ \E sid \in SessionIds : StartContext(sid, "ok", TRUE)
    \/ \E sid \in SessionIds : StartGoto(sid, TRUE, TRUE)
    \/ \E sid \in SessionIds, c \in StopCallers : stop_session(sid, c)
    \/ \E sid \in SessionIds : TasksEnd(sid)
    \/ \E sid \in SessionIds, c \in StopCallers : StopTasksDone(sid, c, TRUE)
    \/ \E sid \in SessionIds, invoker \in Invokers : SendReturns(sid, invoker)
    \/ \E sid \in SessionIds, c \in StopCallers : StopClose(sid, c, TRUE)
    \/ \E sid \in SessionIds : PeriodicFlush(sid, TRUE)
    \/ \E sid \in SessionIds : HandleRequest(sid, MaxOrderEvents)

SpecOrder == InitOrder /\ [][NextOrder]_vars

(***************************************************************************)
(* SpecStreaming: the StreamingService alone, with two WebSockets that     *)
(* connect, go away and disconnect while broadcast calls are made.         *)
(***************************************************************************)
InitStreaming == InitWith(AllEnabled)

NextStreaming ==
    \/ \E session_id \in SessionIds, websocket \in Subscribers :
          connect(session_id, websocket)
    \/ \E session_id \in SessionIds, websocket \in Subscribers :
          disconnect(session_id, websocket)
    \/ \E websocket \in Subscribers : SocketCloses(websocket)
    \/ \E session_id \in SessionIds : BroadcastCall(session_id, MaxBroadcasts)
    \/ \E k \in 1..MaxBroadcasts : BroadcastSendReturns(k)

SpecStreaming == InitStreaming /\ [][NextStreaming]_vars

\* SLA metrics computed from the Store, with the cache off: every call
\* computes.
SlaTimes == {0, MinCheckInterval, 2 * MinCheckInterval}
EndTimes == {None} \cup {Some(t) : t \in SlaTimes}

InitMetrics == InitState(AllEnabled, EmptyDict, FALSE)

NextMetrics ==
    \/ \E monitor_id \in WebsiteIds, is_up \in BOOLEAN :
          AddMonitorCheck(monitor_id, is_up, MaxMetricsChecks)
    \/ \E monitor_id \in WebsiteIds, started_at \in SlaTimes, ended_at \in EndTimes :
          AddDowntimeWindow(monitor_id, started_at, ended_at, MaxMetricsWindows)
    \/ \E monitor_id \in WebsiteIds, start_time \in SlaTimes, end_time \in SlaTimes :
          CalculateMetrics(monitor_id, start_time, end_time, None, MaxMetricsQueries)

SpecMetrics == InitMetrics /\ [][NextMetrics]_vars

\* The cache of SLAAnalyticsService, on or off, while the Store changes and
\* time passes.
CacheRanges == {<<0, 2 * MinCheckInterval>>, <<MinCheckInterval, 2 * MinCheckInterval>>}

InitCache == \E enable_cache \in BOOLEAN : InitState(AllEnabled, EmptyDict, enable_cache)

NextCache ==
    \/ Tick(CacheHorizon)
    \/ \E is_up \in BOOLEAN : AddMonitorCheck(1, is_up, MaxCacheChecks)
    \/ \E ended_at \in {None, Some(MinCheckInterval)} :
          AddDowntimeWindow(1, 0, ended_at, MaxCacheWindows)
    \/ \E range \in CacheRanges : CalculateMetrics(1, range[1], range[2], None, MaxCacheQueries)
    \/ ClearCache

SpecCache == InitCache /\ [][NextCache]_vars

\* calculate_metrics called with different percentile lists for one target
\* and range, the cache on or off.
PercentileLists == {None, Some(<<50>>), Some(<<90, 99>>)}

InitPercentiles == \E enable_cache \in BOOLEAN : InitState(AllEnabled, EmptyDict, enable_cache)

NextPercentiles ==
    \/ Tick(PercentilesHorizon)
    \/ \E is_up \in BOOLEAN : AddMonitorCheck(1, is_up, MaxPercentileChecks)
    \/ \E percentiles \in PercentileLists :
          CalculateMetrics(1, 0, PercentilesHorizon, percentiles, MaxPercentileQueries)
    \/ ClearCache

SpecPercentiles == InitPercentiles /\ [][NextPercentiles]_vars

\* The buckets of every range over half days, for the three bucket types.
BucketTypes == {"day", "week", "month"}
BucketTimes == {k * (SecondsPerDay \div 2) : k \in 0..MaxHalfDays}

InitBuckets == InitWith(AllEnabled)

\* One call in a behaviour.
NextBuckets ==
    /\ answers = <<>>
    /\ \E start_time \in BucketTimes, end_time \in BucketTimes, bucket_type \in BucketTypes :
          GenerateBuckets(start_time, end_time, bucket_type)

SpecBuckets == InitBuckets /\ [][NextBuckets]_vars

\* get_bucketed_metrics over ranges of whole days that begin at the start of
\* the calendar (the first of a month), with Checks on and between the day
\* boundaries.
BucketedCheckTimes == {k * (SecondsPerDay \div 2) : k \in 0..MaxCheckHalfDays}
BucketedEnds == {SecondsPerDay, 2 * SecondsPerDay, 8 * SecondsPerDay}

InitBucketed == \E enable_cache \in BOOLEAN : InitState(AllEnabled, EmptyDict, enable_cache)

NextBucketed ==
    \/ \E checked_at \in BucketedCheckTimes, is_up \in BOOLEAN :
          AddMonitorCheckAt(1, checked_at, is_up, MaxBucketedChecks)
    \/ \E end_time \in BucketedEnds, bucket_type \in BucketTypes :
          GetBucketedMetrics(1, 0, end_time, bucket_type, None, MaxBucketedQueries)
    \/ ClearCache

SpecBucketed == InitBucketed /\ [][NextBucketed]_vars

(***************************************************************************)
(* Properties                                                              *)
(***************************************************************************)
OpenWindows(id) == {i \in 1..Len(windows[id]) : windows[id][i].end_time = None}

\* C1: after any sequence of perform_check calls, also calls for the same
\* website whose awaits interleave, every website has at most one
\* DowntimeWindow whose end_time is null.
AtMostOneOpenWindow ==
    \A id \in WebsiteIds : Cardinality(OpenWindows(id)) <= 1

\* Two unavailable checks of a website are committed, its single window is
\* open, and a further perform_check call for it is still awaiting its probe.
WitnessOpenWindowShared ==
    \E id \in WebsiteIds :
        /\ Len(checks[id]) = 2
        /\ \A i \in 1..2 : ~checks[id][i].is_available
        /\ Cardinality(OpenWindows(id)) = 1
        /\ calls[id] > 0

\* The k-th smallest element of a set of numbers.
Kth(S, k) == CHOOSE x \in S : Cardinality({y \in S : y <= x}) = k

\* Indices at which a maximal run of unavailable checks starts.
RunStarts(cs) ==
    {i \in 1..Len(cs) : ~cs[i].is_available /\ (i = 1 \/ cs[i - 1].is_available)}

\* Index of the first available check after index i, 0 if there is none.
RunClosedBy(cs, i) ==
    LET later == {j \in (i + 1)..Len(cs) : cs[j].is_available} IN
    IF later = {} THEN 0 ELSE Min(later)

\* Window w was written when check i of cs was committed: not before that
\* check, and not after the next one.
WrittenWith(at, cs, i) ==
    /\ at >= cs[i].timestamp
    /\ i < Len(cs) => at <= cs[i + 1].timestamp

\* C2: for the committed checks of one website, in commit order, the
\* DowntimeWindows correspond one-to-one and in order to the maximal runs of
\* unavailable checks: window k is opened with the first check of run k,
\* closed with the first available check after it, and is open exactly when
\* no available check follows the run.
WindowsMatchRuns ==
    \A id \in WebsiteIds :
        LET cs == checks[id]
            ws == windows[id]
            starts == RunStarts(cs)
        IN /\ Len(ws) = Cardinality(starts)
           /\ \A k \in 1..Len(ws) :
                 LET i == Kth(starts, k)
                     j == RunClosedBy(cs, i)
                 IN /\ WrittenWith(ws[k].start_time, cs, i)
                    /\ IF j = 0
                       THEN ws[k].end_time = None
                       ELSE /\ ws[k].end_time # None
                            /\ WrittenWith(Value(ws[k].end_time), cs, j)

\* A website with the outcomes down, up, down: one closed window and one
\* open window.
WitnessTwoRuns ==
    \E id \in WebsiteIds :
        /\ Len(checks[id]) = 3
        /\ ~checks[id][1].is_available
        /\ checks[id][2].is_available
        /\ ~checks[id][3].is_available
        /\ Len(windows[id]) = 2
        /\ windows[id][1].end_time # None
        /\ windows[id][2].end_time = None

\* C3: once record_failure has been called failure_threshold times since the
\* last reset of a website (record_success or the expiry of a block), the
\* website has a block, and no sooner; is_blocked returns true at every time
\* before blocked_until and changes nothing; the first is_blocked call at or
\* after blocked_until returns false, removes the block and sets the failure
\* count to zero.
BreakerBlocksUntilCooldown ==
    /\ [](\A id \in WebsiteIds :
            streak[id] >= failure_threshold <=> id \in DOMAIN blocked_until)
    /\ [][\A id \in WebsiteIds :
            (CallIsBlocked(id) /\ streak[id] >= failure_threshold) =>
                IF now < blocked_until[id]
                THEN /\ returned' = Some([id |-> id, value |-> TRUE])
                     /\ UNCHANGED <<failures, blocked_until>>
                ELSE /\ returned' = Some([id |-> id, value |-> FALSE])
                     /\ id \notin DOMAIN blocked_until'
                     /\ failures'[id] = 0
                     /\ streak'[id] = 0]_vars

\* A block has run out and is_blocked has reset the website: it returned
\* false and left the failure count at zero.
WitnessBlockExpired ==
    \E id \in WebsiteIds :
        /\ returned = Some([id |-> id, value |-> FALSE])
        /\ id \in DOMAIN failures
        /\ failures[id] = 0
        /\ id \notin DOMAIN blocked_until
        /\ now >= timeout

\* A firing that reached the probe returns with its check persisted.
FiringPersisted(id) ==
    /\ id \in running
    /\ id \notin running'
    /\ Len(checks'[id]) = Len(checks[id]) + 1

LastCheck(cs) == cs[Len(cs)]

\* C4: a firing that ends with a persisted check records a success when the
\* check is available, which takes the website's failure count and block out
\* of the breaker, and records a failure when the check is unavailable, which
\* raises the failure count by one.
FiringRecordsCheckOutcome ==
    [][\A id \in WebsiteIds :
         FiringPersisted(id) =>
            IF LastCheck(checks'[id]).is_available
            THEN id \notin DOMAIN failures' /\ id \notin DOMAIN blocked_until'
            ELSE /\ id \in DOMAIN failures'
                 /\ failures'[id] = DictGet(failures, id, 0) + 1]_vars

\* C5: after failure_threshold consecutive firings whose probe raised, the
\* website is blocked; while less than timeout seconds have passed since the
\* last check of such a run, no firing starts a probe or records a check; and
\* a firing that persists an available check leaves the website without
\* failure count and block.
OutageTripsBreaker ==
    /\ [](\A id \in WebsiteIds :
            raises[id] >= failure_threshold => id \in DOMAIN blocked_until)
    /\ [][\A id \in WebsiteIds :
            /\ (/\ raises[id] >= failure_threshold
                /\ id \notin running
                /\ checks[id] # <<>>
                /\ now < LastCheck(checks[id]).timestamp + timeout)
               => (id \notin running' /\ checks'[id] = checks[id])
            /\ (FiringPersisted(id) /\ LastCheck(checks'[id]).is_available)
               => (id \notin DOMAIN failures' /\ id \notin DOMAIN blocked_until')
       ]_vars

BlockedNow(id) == id \in DOMAIN blocked_until /\ now < blocked_until[id]

\* C6: a firing for a website that is blocked at the time of the firing
\* changes neither the Store nor the breaker, starts no probe and keeps the
\* job.
BlockedFiringChangesNothing ==
    [][\A id \in WebsiteIds, read_ok \in BOOLEAN :
         (FireJob(id, read_ok, MaxFiringChecks) /\ id \notin running /\ BlockedNow(id)) =>
            /\ UNCHANGED <<websites, checks, windows, failures, blocked_until,
                           running, job_ids>>
            /\ DOMAIN sched_jobs' = DOMAIN sched_jobs
            /\ log'[id] = "skipping"]_vars

\* A firing has been skipped for a website inside its cooldown.
WitnessBlockedFiringSkipped ==
    \E id \in WebsiteIds :
        /\ log[id] = "skipping"
        /\ BlockedNow(id)
        /\ id \in DOMAIN failures /\ failures[id] >= failure_threshold
        /\ job_id(id) \in DOMAIN sched_jobs
        /\ sched_jobs[job_id(id)].next_run_time > now
        /\ id \notin running

\* The firing of id finds the website missing or disabled: a job instance
\* was not running, the website was not blocked and the Store could be read.
FiringFindsNoTarget(id) ==
    /\ FireJob(id, TRUE, MaxFiringChecks)
    /\ id \notin running
    /\ ~BlockedNow(id)
    /\ (id \notin DOMAIN websites \/ ~websites[id].enabled)

\* The job of id is removed and no probe starts, no check is recorded.
JobRemovedNoProbe(id) ==
    /\ id \notin DOMAIN job_ids'
    /\ job_id(id) \notin DOMAIN sched_jobs'
    /\ UNCHANGED <<websites, checks, windows, running>>

\* C7 as stated: a firing that finds its website missing or disabled removes
\* the job, probes nothing, records no check and leaves the breaker as it
\* was.
NoTargetFiringLeavesBreaker ==
    [][\A id \in WebsiteIds :
         FiringFindsNoTarget(id) =>
            JobRemovedNoProbe(id) /\ UNCHANGED <<failures, blocked_until>>]_vars

\* C7 amended: a firing that finds its website missing or disabled removes
\* the job, probes nothing, records no check, and records neither a success
\* nor a failure; the breaker is as it was, except that a block of the website
\* that has run out is removed and its failure count set to zero.
NoTargetFiringRemovesJob ==
    [][\A id \in WebsiteIds :
         FiringFindsNoTarget(id) =>
            /\ JobRemovedNoProbe(id)
            /\ IF Expired(id, now)
               THEN /\ failures' = DictSet(failures, id, 0)
                    /\ blocked_until' = DictDel(blocked_until, id)
               ELSE UNCHANGED <<failures, blocked_until>>]_vars

\* A firing found the website disabled or gone and took its job away.
WitnessJobRemovedByFiring ==
    \E id \in WebsiteIds :
        /\ log[id] \in {"not found", "disabled"}
        /\ started
        /\ id \notin DOMAIN job_ids
        /\ job_id(id) \notin DOMAIN sched_jobs
        /\ id \notin running

\* C8: when the query or the commit of perform_check fails, neither the check
\* nor a change of the website's windows is in the Store, and the breaker
\* counts one failure more for the website.
FailedCommitPersistsNothing ==
    [][\A id \in WebsiteIds, result \in ProbeResults :
         WrapperReturn(id, result, FALSE) =>
            /\ UNCHANGED <<websites, checks, windows>>
            /\ id \in DOMAIN failures'
            /\ failures'[id] = DictGet(failures, id, 0) + 1]_vars

\* A firing ended in a failed commit: the website has one failure and, though
\* it was probed, no check.
WitnessFailedCommit ==
    \E id \in WebsiteIds :
        /\ log[id] = "error persisting"
        /\ id \in DOMAIN failures /\ failures[id] = 1
        /\ checks[id] = <<>> /\ windows[id] = <<>>
        /\ id \notin running

\* The job map holds one job per enabled website of ws, at the website's
\* check interval, and nothing else.
JobsMatchStore(ws, jids, jobs) ==
    LET active == get_active_websites(ws) IN
    /\ DOMAIN jids = active
    /\ DOMAIN jobs = {job_id(id) : id \in active}
    /\ \A id \in active :
          /\ jids[id] = job_id(id)
          /\ jobs[job_id(id)].interval = ws[id].check_interval

\* C9: after sync_jobs on a started scheduler there is exactly one job per
\* enabled website, firing at that website's check interval, and no job for
\* any other website.
SyncReconciles ==
    [][(SyncJobs \/ (start /\ started')) =>
          JobsMatchStore(websites', job_ids', sched_jobs')]_vars

\* sync_jobs has run some time after the start, on a Store that changed: one
\* website has its job, due one interval from now, another was checked and
\* has none any more.
WitnessSynced ==
    \E id, other \in WebsiteIds :
        /\ started /\ now > 0
        /\ id \in DOMAIN websites /\ websites[id].enabled
        /\ id \in DOMAIN job_ids
        /\ sched_jobs[job_id(id)].interval = websites[id].check_interval
        /\ sched_jobs[job_id(id)].next_run_time = now + websites[id].check_interval
        /\ other \notin get_active_websites(websites)
        /\ other \notin DOMAIN job_ids
        /\ job_id(other) \notin DOMAIN sched_jobs
        /\ checks[other] # <<>>

\* C10: sync_jobs on a job map that already matches the Store changes
\* nothing: no job is added, removed or rescheduled.
SyncIsIdempotent ==
    [][(SyncJobs /\ JobsMatchStore(websites, job_ids, sched_jobs)) =>
          UNCHANGED <<job_ids, sched_jobs>>]_vars

ActiveSessionsOf(target_url) ==
    {sid \in DOMAIN sessions : /\ sessions[sid].target_url = target_url
                               /\ sessions[sid].status = "active"}

\* C12: at every moment at most one debug session of a target is active, and
\* no session row is created for a target that has an active session.
OneActiveSessionPerTarget ==
    /\ [](\A target_url \in TargetUrls :
            Cardinality(ActiveSessionsOf(target_url)) <= 1)
    /\ [][\A target_url \in TargetUrls :
            ActiveSessionsOf(target_url) # {} =>
               ~(\E sid \in DOMAIN sessions' \ DOMAIN sessions :
                    sessions'[sid].target_url = target_url)]_vars

\* C13: a start_session call goes on only when it finds the session pending;
\* a call that finds it in another status is refused and leaves the row, the
\* map of active sessions and the objects as they are; and a session is set
\* active only by a call that went on, with started_at set and the session
\* registered.
StartOnlyFromPending ==
    [][\A sid \in DOMAIN sessions :
         /\ (StartCall(sid) /\ sessions[sid].status # "pending") =>
               /\ UNCHANGED <<sessions, active_sessions, engine, start_pc>>
               /\ slog'[sid] = "start refused"
         /\ (start_pc[sid] = "idle" /\ start_pc'[sid] # "idle") =>
               sessions[sid].status = "pending"
         /\ (sessions[sid].status # "active" /\ sessions'[sid].status = "active") =>
               /\ start_pc[sid] = "context"
               /\ sessions'[sid].started_at = Some(now)
               /\ sid \in active_sessions']_vars

\* A session that was started and stopped has refused a second start.
WitnessStartRefused ==
    \E sid \in DOMAIN sessions :
        /\ slog[sid] = "start refused"
        /\ sessions[sid].status = "stopped"
        /\ sessions[sid].started_at # None
        /\ sid \notin active_sessions

TerminalStatuses == {"stopped", "failed", "timeout"}

\* C14: a debug session that has a terminal status keeps its status, its
\* stopped_at (end_time in the sessions attached to a website) and its
\* error_message in every later step.
TerminalStatesImmutable ==
    [][/\ \A sid \in DOMAIN sessions :
            sessions[sid].status \in TerminalStatuses =>
               /\ sessions'[sid].status = sessions[sid].status
               /\ sessions'[sid].stopped_at = sessions[sid].stopped_at
               /\ sessions'[sid].error_message = sessions[sid].error_message
       /\ \A i \in 1..Len(debug_sessions) :
            debug_sessions[i].status = "completed" =>
               debug_sessions'[i] = debug_sessions[i]]_vars

\* C15: when the deadline task of a session that is still active runs out,
\* the session gets the status timeout with stopped_at set in the Store, its
\* browsing context is closed and it leaves the map of active sessions.
DeadlineEndsSession ==
    [][\A sid \in DOMAIN sessions :
         (/\ sessions[sid].status = "active"
          /\ engine[sid].timeout_task = "sleep"
          /\ engine'[sid].timeout_task = "done") =>
            /\ sessions'[sid].status = "timeout"
            /\ sessions'[sid].stopped_at # None
            /\ engine'[sid].context = "closed"
            /\ sid \notin active_sessions']_vars

\* A start_session call of sid ends by raising in this step.
StartRaises(sid) ==
    /\ start_pc[sid] # "idle"
    /\ start_pc'[sid] = "idle"
    /\ ~(start_pc[sid] = "goto" /\ slog'[sid] = "started")

\* C16: when a start_session call that passed the pending check raises, the
\* session has the status failed and an error_message, it is not in the map
\* of active sessions and neither its flush task nor its timeout task runs.
FailedStartCleansUp ==
    [][\A sid \in DOMAIN sessions :
         StartRaises(sid) =>
            /\ sessions'[sid].status = "failed"
            /\ sessions'[sid].error_message # None
            /\ sid \notin active_sessions'
            /\ ~Live(engine'[sid].flush_task)
            /\ ~Live(engine'[sid].timeout_task)]_vars

\* C17: in every state no session is active with stopped_at set, and every
\* session with a terminal status has stopped_at set.
StoppedAtMatchesStatus ==
    \A sid \in DOMAIN sessions :
        /\ sessions[sid].status = "active" => sessions[sid].stopped_at = None
        /\ sessions[sid].status \in TerminalStatuses =>
              sessions[sid].stopped_at # None

\* A stop_session call of sid returns in this step, and no handler of the
\* session was called since stop was first called.
StopReturns(sid) ==
    /\ slog[sid] # "stopped"
    /\ slog'[sid] = "stopped"
    /\ engine[sid].calls_at_stop =
          Some(<<engine[sid].event_calls, engine[sid].error_calls>>)

\* C18: when stop returns for a session whose handlers were called for n
\* network events and m console errors or warnings before the stop, n
\* network events and m console errors of the session are persisted, each
\* event once.
StopPersistsEveryEvent ==
    [][\A sid \in DOMAIN sessions :
         StopReturns(sid) =>
            /\ Len(network_events'[sid]) = engine[sid].event_calls
            /\ Len(console_errors'[sid]) = engine[sid].error_calls
            /\ \A i, j \in 1..Len(network_events'[sid]) :
                  network_events'[sid][i].n = network_events'[sid][j].n => i = j]_vars

Occurrences(rx, type, id) ==
    Cardinality({i \in 1..Len(rx) : rx[i].type = type /\ rx[i].id = id})

IsStatus(m) == m.type = "status"

\* C19: when stop returns for a session that was started, a subscriber that
\* was connected throughout has received one message for every persisted
\* network event and console error of the session, and the status messages
\* active and stopped, in this order.
SubscriberReceivesEveryRow ==
    [][\A sid \in DOMAIN sessions, sub \in Subscribers :
         (/\ slog[sid] # "stopped"
          /\ slog'[sid] = "stopped"
          /\ start_pc[sid] = "idle"
          /\ sub \in DictGet(connections, sid, {})) =>
            /\ \A i \in 1..Len(network_events'[sid]) :
                  Occurrences(received'[sub], "network_event",
                              network_events'[sid][i].id) = 1
            /\ \A i \in 1..Len(console_errors'[sid]) :
                  Occurrences(received'[sub], "console_error",
                              console_errors'[sid][i].id) = 1
            /\ SelectSeq(received'[sub], IsStatus) =
                  <<StatusMessage("active"), StatusMessage("stopped")>>]_vars

IsEvent(m) == m.type = "network_event"

\* C20: the network events a subscriber of a session receives come in the
\* order in which the handlers appended them to the buffer of the session.
EventsArriveInAppendOrder ==
    \A sid \in DOMAIN sessions : \A sub \in DictGet(connections, sid, {}) :
        LET rx == SelectSeq(received[sub], IsEvent) IN
        \A i, j \in 1..Len(rx) :
            i < j => network_events[sid][rx[i].id].n < network_events[sid][rx[j].id].n

IsStreamMessage(m) == m.type = "message"

\* C21: every WebSocket is sent the messages of its session in the order in
\* which the broadcast calls were made, also when two calls are under way
\* at once.
DeliveryFollowsCallOrder ==
    \A websocket \in Subscribers :
        LET rx == SelectSeq(received[websocket], IsStreamMessage) IN
        \A i, j \in 1..Len(rx) : i < j => rx[i].id < rx[j].id

\* The k-th broadcast call returns in this step.
BroadcastReturns(k) ==
    /\ k \in 1..Len(broadcasts')
    /\ broadcasts'[k].pc = "done"
    /\ k \in 1..Len(broadcasts) => broadcasts[k].pc # "done"

Sent(websocket, k) ==
    \E i \in 1..Len(received[websocket]) :
        received[websocket][i] = StreamMessage(k)

\* C22: no session id maps to an empty set of WebSockets; when a broadcast
\* call returns, the WebSockets whose send raised are out of the set of the
\* session and every other WebSocket of the set it copied was sent the
\* message; a call made after that does not send to them; and a closed
\* WebSocket is sent nothing more.
FailedSinkIsDropped ==
    /\ [](\A session_id \in DOMAIN connections : connections[session_id] # {})
    /\ [][/\ \A k \in 1..MaxBroadcasts :
               BroadcastReturns(k) =>
                  /\ broadcasts'[k].failed
                        \cap DictGet(connections', broadcasts'[k].session_id, {}) = {}
                  /\ \A websocket \in broadcasts'[k].copy \ broadcasts'[k].failed :
                        Sent(websocket, k)'
          /\ \A j \in 1..Len(broadcasts) :
               (Len(broadcasts') > Len(broadcasts) /\ broadcasts[j].pc = "done") =>
                  broadcasts[j].failed \cap broadcasts'[Len(broadcasts')].copy = {}
          /\ \A websocket \in Subscribers :
               sockets[websocket] = "closed" =>
                  received'[websocket] = received[websocket]]_vars

\* A broadcast to two WebSockets returned after the send to one of them
\* raised: the other one was sent the message, and a later call was made
\* for the session.
WitnessSinkDropped ==
    \E j, k \in 1..Len(broadcasts) :
        /\ j < k
        /\ broadcasts[j].pc = "done"
        /\ broadcasts[j].session_id = broadcasts[k].session_id
        /\ broadcasts[j].failed # {}
        /\ \E websocket \in broadcasts[j].copy \ broadcasts[j].failed :
              /\ Sent(websocket, j)
              /\ Sent(websocket, k)

\* The call of calculate_metrics that a step makes, if it makes one.
Answered == Len(answers') = Len(answers) + 1
Answer == answers'[Len(answers')]

\* The percentiles a recorded call asked for.
Asked(a) == IF a.percentiles = None THEN DefaultPercentiles ELSE Value(a.percentiles)

\* The downtime of a target within [start_time, end_time]: each of its
\* windows counts from the later of its start and start_time to the earlier
\* of its end (end_time for an open window) and end_time, or not at all.
RECURSIVE OverlapSum(_, _, _, _)
OverlapSum(rows, monitor_id, start_time, end_time) ==
    IF rows = <<>> THEN 0
    ELSE LET w == Head(rows)
             upto == IF w.ended_at = None THEN end_time
                     ELSE Smaller(Value(w.ended_at), end_time)
             overlap == upto - Larger(w.started_at, start_time)
         IN (IF w.monitor_id = monitor_id /\ overlap > 0 THEN overlap ELSE 0)
            + OverlapSum(Tail(rows), monitor_id, start_time, end_time)

\* C23: a calculate_metrics call that computes from the Store, for a range
\* with end > start, returns as total_downtime_seconds the sum over the
\* target's windows of their overlap with the range (open windows counted up
\* to end), and an availability_percent with
\* availability_percent + total_downtime_seconds / (end - start) * 100 = 100;
\* for end = start it returns availability 100.
DowntimeIsOverlapSum ==
    [][Answered =>
         LET m == Answer.metrics
             period == Answer.end_time - Answer.start_time
             a == m.availability_percent
         IN /\ a.den > 0
            /\ period > 0 =>
                 /\ m.total_downtime_seconds =
                       OverlapSum(downtime_windows, Answer.monitor_id,
                                  Answer.start_time, Answer.end_time)
                 /\ a.num * period + m.total_downtime_seconds * 100 * a.den
                       = 100 * a.den * period
            /\ period = 0 => a.num = 100 * a.den]_vars

\* A call has answered for a range that cuts a closed window at its start
\* and holds an open window, which counts up to the end of the range.
WitnessDowntimeClipped ==
    /\ Len(answers) = 1
    /\ answers[1].monitor_id = 1
    /\ answers[1].start_time = MinCheckInterval
    /\ answers[1].end_time = 2 * MinCheckInterval
    /\ answers[1].metrics.total_downtime_seconds = 2 * MinCheckInterval
    /\ \E i, j \in 1..Len(downtime_windows) :
          /\ downtime_windows[i].monitor_id = 1
          /\ downtime_windows[i].started_at = 0
          /\ downtime_windows[i].ended_at # None
          /\ downtime_windows[j].monitor_id = 1
          /\ downtime_windows[j].ended_at = None

\* The earlier calls with the arguments of the call a step makes.
SameArguments(i) ==
    /\ answers[i].monitor_id = Answer.monitor_id
    /\ answers[i].start_time = Answer.start_time
    /\ answers[i].end_time = Answer.end_time

AnswerKey == get_cache_key(Answer.monitor_id, Answer.start_time, Answer.end_time, "none")

\* C24: with the cache enabled, a calculate_metrics call made while the
\* entry of an earlier call with the same arguments is in the cache and its
\* TTL has not elapsed returns a result equal to that call's, field for
\* field including start_time and end_time, whatever was added to the Store
\* in between.
CachedResultEqualsFirst ==
    [][(Answered /\ sla.enable_cache /\ AnswerKey \in DOMAIN sla.cache) =>
         \A i \in 1..Len(answers) :
            (/\ SameArguments(i)
             /\ sla.cache[AnswerKey].expires_at = answers[i].at + cache_ttl_seconds
             /\ now <= sla.cache[AnswerKey].expires_at)
            => Answer.metrics = answers[i].metrics]_vars

\* C25: a calculate_metrics call made when the cache is disabled, when the
\* cache holds no entry for its arguments (as after clear_cache), or when
\* the entry's TTL has elapsed, returns the metrics computed from the Store
\* as it is at the call, and never the expired entry.
StaleEntryNotServed ==
    [][(/\ Answered
        /\ \/ ~sla.enable_cache
           \/ AnswerKey \notin DOMAIN sla.cache
           \/ now > sla.cache[AnswerKey].expires_at)
       => Answer.metrics = compute_metrics(monitor_checks, downtime_windows,
                                           Answer.monitor_id, Answer.start_time,
                                           Answer.end_time, Asked(Answer))]_vars

\* With the cache enabled, a second call with the same arguments was made
\* after the TTL of the first call's entry, and returned another downtime.
WitnessExpiredRecomputed ==
    /\ sla.enable_cache
    /\ Len(answers) = 2
    /\ answers[2].monitor_id = answers[1].monitor_id
    /\ answers[2].start_time = answers[1].start_time
    /\ answers[2].end_time = answers[1].end_time
    /\ answers[2].at > answers[1].at + cache_ttl_seconds
    /\ answers[2].metrics.total_downtime_seconds
          # answers[1].metrics.total_downtime_seconds

\* A bucket boundary of the type: midnight, Monday midnight, or midnight of
\* the first of a month.
Aligned(bucket_type, t) ==
    /\ t = midnight(t)
    /\ bucket_type = "week" => weekday(t) = 0
    /\ bucket_type = "month" => DayOf(t) = MonthStartDay(MonthOf(t))

\* C26: for every range with start < end and every bucket type, the buckets
\* are non-empty intervals that begin at start, end at end and follow one
\* another without gap or overlap, and every boundary between two buckets is
\* aligned: a bucket that begins before start is clipped, not dropped.
BucketsCoverRange ==
    \A n \in 1..Len(answers) :
        LET a == answers[n]
            b == a.buckets
        IN a.start_time < a.end_time =>
              /\ b # <<>>
              /\ b[1][1] = a.start_time
              /\ b[Len(b)][2] = a.end_time
              /\ \A i \in 1..Len(b) : b[i][1] < b[i][2]
              /\ \A i \in 1..(Len(b) - 1) :
                    /\ b[i][2] = b[i + 1][1]
                    /\ Aligned(a.bucket_type, b[i][2])

\* Stores of Checks other than the one at hand: none at all, one row of any
\* kind, and the rows at hand all turned into failures.
OtherChecks ==
    {<<>>}
    \cup {<<MonitorCheckRow(monitor_id, t, is_up, IF is_up THEN Some(100) ELSE None)>> :
             monitor_id \in WebsiteIds, t \in SlaTimes, is_up \in BOOLEAN}
    \cup {[i \in 1..Len(monitor_checks) |->
             [monitor_checks[i] EXCEPT !.is_up = FALSE, !.response_time_ms = None]]}

\* C27: the availability_percent and total_downtime_seconds that a
\* calculate_metrics call computes are those computed for the same windows
\* and range from any other Checks: no Checks, other Checks, only failed
\* Checks.
AvailabilityIgnoresChecks ==
    [][Answered =>
         \A other \in OtherChecks :
            LET m == compute_metrics(other, downtime_windows, Answer.monitor_id,
                                     Answer.start_time, Answer.end_time,
                                     Asked(Answer))
            IN /\ Answer.metrics.availability_percent = m.availability_percent
               /\ Answer.metrics.total_downtime_seconds = m.total_downtime_seconds]_vars

\* A call has answered for a target whose only Check in the range failed and
\* which has a window in the range: the failure is counted as a failure, the
\* downtime is that of the window.
WitnessFailedCheckNoDowntime ==
    /\ Len(answers) = 1
    /\ answers[1].end_time - answers[1].start_time = 2 * MinCheckInterval
    /\ answers[1].metrics.failure_count = 1
    /\ answers[1].metrics.total_checks = 1
    /\ answers[1].metrics.total_downtime_seconds = MinCheckInterval
    /\ Len(downtime_windows) = 1

\* C28: every create_session call stores the requested duration limit if it
\* is at or below the configured maximum and the maximum if it is above, so
\* that no stored limit exceeds the maximum.
DurationLimitCapped ==
    [][/\ \A target_url \in TargetUrls, duration_limit \in RequestedLimits :
             create_session(target_url, duration_limit, MaxSessions) =>
                sessions'[Cardinality(DOMAIN sessions) + 1].duration_limit =
                   IF duration_limit > debug_session_max_duration
                   THEN debug_session_max_duration
                   ELSE duration_limit
       /\ \A sid \in DOMAIN sessions' :
             sessions'[sid].duration_limit <= debug_session_max_duration]_vars

\* A session was created with a limit above the maximum (no limit asked for
\* in SpecTargets equals the maximum) and another with a limit below it.
WitnessLimitCapped ==
    \E sid, other \in DOMAIN sessions :
        /\ sessions[sid].duration_limit = debug_session_max_duration
        /\ sessions[other].duration_limit = MinCheckInterval

\* C29: record_success for a target removes its failure count and its
\* block, so that is_blocked is false for it right afterwards, and leaves
\* the counts and blocks of the other targets as they were; a block is set
\* only by the failure_threshold-th or a later failure recorded since the
\* count was last reset (by record_success, or by a block that ran out).
SuccessClearsTarget ==
    [][/\ \A id \in WebsiteIds :
             CallRecordSuccess(id) =>
                /\ id \notin DOMAIN failures'
                /\ id \notin DOMAIN blocked_until'
                /\ ~is_blocked([failures |-> failures', blocked_until |-> blocked_until'],
                               id, now').value
                /\ \A other \in WebsiteIds \ {id} :
                      /\ other \in DOMAIN failures' <=> other \in DOMAIN failures
                      /\ other \in DOMAIN failures => failures'[other] = failures[other]
                      /\ other \in DOMAIN blocked_until' <=> other \in DOMAIN blocked_until
                      /\ other \in DOMAIN blocked_until =>
                            blocked_until'[other] = blocked_until[other]
       /\ \A id \in WebsiteIds :
             (id \in DOMAIN blocked_until'
                /\ (id \notin DOMAIN blocked_until \/ blocked_until'[id] # blocked_until[id]))
             => /\ CallRecordFailure(id)
                /\ streak'[id] >= failure_threshold]_vars

\* is_blocked last returned TRUE for target 1, record_success has since
\* removed its count and its block (only record_success removes a count),
\* and target 2 is still blocked.
WitnessSuccessClearedBlock ==
    /\ returned = Some([id |-> 1, value |-> TRUE])
    /\ 1 \notin DOMAIN failures
    /\ 1 \notin DOMAIN blocked_until
    /\ 2 \in DOMAIN blocked_until
    /\ now < blocked_until[2]

\* No call of start_session or of stop() is under way for the session.
Settled(sid) ==
    /\ start_pc[sid] = "idle"
    /\ \A c \in DOMAIN engine[sid].stop_pc : engine[sid].stop_pc[c] = "idle"

\* C30: once a session has left the active state (it is stopped or failed
\* and no start or stop call is under way), the browsing context that
\* start_session acquired for it is closed.
AcquiredContextClosed ==
    \A sid \in DOMAIN sessions :
        (sessions[sid].status \in TerminalStatuses /\ Settled(sid))
        => engine[sid].context # "open"

\* C31: the DowntimeWindow opened by an unavailable check has a start_time
\* equal to that check's timestamp, and the window closed by an available
\* check has an end_time equal to that check's timestamp.
WindowTimesAreCheckTimes ==
    \A id \in WebsiteIds :
        LET cs == checks[id]
            ws == windows[id]
            starts == RunStarts(cs)
        IN \A k \in 1..Len(ws) :
              k <= Cardinality(starts) =>
                 LET i == Kth(starts, k)
                     j == RunClosedBy(cs, i)
                 IN /\ ws[k].start_time = cs[i].timestamp
                    /\ (j # 0 /\ ws[k].end_time # None) =>
                          Value(ws[k].end_time) = cs[j].timestamp

ChecksInTimestampOrder ==
    \A id \in WebsiteIds :
        \A i, j \in 1..Len(checks[id]) :
            i < j => checks[id][i].timestamp <= checks[id][j].timestamp

\* Two checks of a website are committed, the later with the later
\* timestamp, while a third call for it still awaits its probe.
WitnessOverlappingCallsOrdered ==
    \E id \in WebsiteIds :
        /\ Len(checks[id]) = 2
        /\ checks[id][1].timestamp < checks[id][2].timestamp
        /\ calls[id] > 0

\* C34: no firing lets an exception out of _check_website_wrapper, whatever
\* fails inside it: the Store read, the probe, the commit, the removal of
\* the job, or the rollback.
NoFiringRaises ==
    \A id \in WebsiteIds : log[id] # "raised"

Numbers(rows) == {rows[i].n : i \in 1..Len(rows)}

\* C35: an event appended to the buffer of a session is never discarded
\* without being persisted: every network event and every console error the
\* handlers appended is in the buffer or among the rows of the session, also
\* after a flush whose commit raised.
AppendedEventsKept ==
    \A sid \in DOMAIN sessions :
       /\ 1..engine[sid].appended \subseteq
             Numbers(engine[sid].pending_events) \cup Numbers(network_events[sid])
       /\ 1..engine[sid].error_calls \subseteq
             Numbers(engine[sid].pending_errors) \cup Numbers(console_errors[sid])

ContextsOf(sid) == {k \in 1..Len(contexts) : contexts[k].session_id = sid}

ObjectsOf(sid) == {i \in 1..Len(objects) : objects[i].session_id = sid}

\* C36: however the start_session calls for one pending session interleave,
\* at most one browsing context and one ActiveDebugSession is made for the
\* session id, and each object that is made is the one the map holds for
\* the session id until it is stopped.
OneObjectPerSession ==
    \A sid \in SessionIds :
       /\ Cardinality(ContextsOf(sid)) <= 1
       /\ Cardinality(ObjectsOf(sid)) <= 1
       /\ \A i \in ObjectsOf(sid) :
             ~objects[i].stop_event => DictGet(registered, sid, 0) = i

\* C37: in every reachable state of the CircuitBreaker a target with a
\* blocked_until entry has a failure count of at least failure_threshold,
\* whatever sequence of record_failure, record_success and is_blocked calls
\* led there.
BlockedHasThresholdFailures ==
    \A id \in DOMAIN blocked_until :
       DictGet(failures, id, 0) >= failure_threshold

\* A blocked target failed again, while the block of another target has run
\* out and was reset by is_blocked (its count is kept, as 0).
WitnessBlockedAboveThreshold ==
    \E id \in DOMAIN blocked_until, other \in DOMAIN failures :
       /\ failures[id] > failure_threshold
       /\ other \notin DOMAIN blocked_until
       /\ failures[other] = 0

\* C38: calculate_metrics returns a percentile entry for exactly the
\* percentiles asked for in that call, also when the cache is enabled and an
\* earlier call for the same target and range asked for other percentiles.
PercentilesAreThoseAsked ==
    \A n \in 1..Len(answers) :
       DOMAIN answers[n].metrics.percentile_response_times =
          {percentile_key(Asked(answers[n])[i]) : i \in 1..Len(Asked(answers[n]))}

RECURSIVE TotalChecks(_)
TotalChecks(results) ==
    IF results = <<>> THEN 0
    ELSE Head(results).total_checks + TotalChecks(Tail(results))

\* C39: in get_bucketed_metrics every Check with a timestamp in the range is
\* counted in exactly one bucket: the total_checks of the buckets of a call
\* that computes them from the Store sum to the total_checks of the point
\* query over the same range, also with a Check on a bucket boundary.
BucketChecksSumToPointQuery ==
    [][(Answered /\ sla.cache = EmptyDict) =>
          TotalChecks(Answer.results) =
             compute_metrics(monitor_checks, downtime_windows, Answer.monitor_id,
                             Answer.start_time, Answer.end_time,
                             Asked(Answer)).total_checks]_vars

\* C40: the windows perform_check produces for one target never overlap,
\* each starts at or after the end of the one before it; so for every query
\* range calculate_metrics over those windows returns an availability
\* between 0 and 100 and a downtime that is not negative and no larger than
\* the range.
WindowsDisjointMetricsBounded ==
    /\ \A id \in WebsiteIds : \A i, j \in 1..Len(windows[id]) :
          i < j => /\ windows[id][i].end_time # None
                   /\ Value(windows[id][i].end_time) <= windows[id][j].start_time
    /\ \A n \in 1..Len(answers) :
          LET a == answers[n]
              availability == a.metrics.availability_percent
          IN /\ availability.den > 0
             /\ availability.num >= 0
             /\ availability.num <= 100 * availability.den
             /\ a.metrics.total_downtime_seconds >= 0
             /\ a.metrics.total_downtime_seconds <= a.end_time - a.start_time

\* A call has answered for a range that holds a closed window and the open
\* window that followed it: the downtime is that of both, and less than the
\* range.
WitnessTwoWindowsQueried ==
    /\ Len(answers) = 1
    /\ Len(windows[1]) = 2
    /\ windows[1][1].end_time # None
    /\ windows[1][1].start_time < Value(windows[1][1].end_time)
    /\ Value(windows[1][1].end_time) < windows[1][2].start_time
    /\ windows[1][2].end_time = None
    /\ answers[1].start_time <= windows[1][1].start_time
    /\ answers[1].end_time > windows[1][2].start_time
    /\ answers[1].metrics.total_downtime_seconds =
          (Value(windows[1][1].end_time) - windows[1][1].start_time)
          + (answers[1].end_time - windows[1][2].start_time)
    /\ answers[1].metrics.total_downtime_seconds
          < answers[1].end_time - answers[1].start_time

====
